---- MODULE Spec2Model ----
(***************************************************************************)
(* Model of the DynamoDB value codec of docstore/awsdynamodb/codec.go      *)
(* (type codec): the observer that builds a tagged-value tree, the two     *)
(* renderers asV1AttributeValue / asV2AttributeValue, the two decoders     *)
(* newV1Decoder / newV2Decoder and the read accessors of the decoded tree. *)
(*                                                                         *)
(* Conventions.                                                            *)
(*  - A Go pointer or slice that may be nil is a sequence of length 0      *)
(*    (nil) or 1 (the value it holds): Nil, Some(x), IsNil(p), Get(p).     *)
(*  - A Go string or []byte content is a sequence of one-character         *)
(*    strings / of small integers.                                         *)
(*  - A Go interface value (any) is a record [t |-> dynamic type,          *)
(*    v |-> data]; the nil interface is NilAny.                            *)
(*  - reflect.Kind values are written by their names.                      *)
(***************************************************************************)
EXTENDS Integers, Sequences, FiniteSets, TLC

(***************************************************************************)
(* Bounds of the model.                                                    *)
(***************************************************************************)
\* number of values notified to the observers in one encode call (the
\* Encode... calls; ListIndex and MapKey are not counted), for values of
\* every kind (Spec) and for lists and maps of integers (SpecTree)
MaxSteps == 2
MaxNotes == 4
\* largest n passed to EncodeList / EncodeMap
MaxLen == 2
\* digits of the fractional second kept by the timestamp text (9 in Go)
FracDigits == 2

(***************************************************************************)
(* Nil-able values.                                                        *)
(***************************************************************************)
Nil == <<>>
Some(x) == <<x>>
IsNil(p) == Len(p) = 0
Get(p) == p[1]

NilAny == [t |-> "nil", v |-> <<>>]
AnyOf(t, v) == [t |-> t, v |-> v]

(***************************************************************************)
(* Text.                                                                   *)
(***************************************************************************)
Digits == <<"0", "1", "2", "3", "4", "5", "6", "7", "8", "9">>
IsDigit(c) == \E i \in 1..10 : Digits[i] = c
DigitVal(c) == (CHOOSE i \in 1..10 : Digits[i] = c) - 1

RECURSIVE Pow10(_)
Pow10(n) == IF n = 0 THEN 1 ELSE 10 * Pow10(n - 1)

\* the decimal digits of a natural number, most significant first
RECURSIVE NatText(_)
NatText(n) == IF n < 10 THEN <<Digits[n + 1]>>
              ELSE NatText(n \div 10) \o <<Digits[(n % 10) + 1]>>

\* the value of a sequence of decimal digits
RECURSIVE DigitsVal(_)
DigitsVal(s) == IF Len(s) = 0 THEN 0
                ELSE 10 * DigitsVal(SubSeq(s, 1, Len(s) - 1)) + DigitVal(s[Len(s)])

\* n written with exactly w digits
RECURSIVE PadText(_, _)
PadText(n, w) == IF w = 0 THEN <<>>
                 ELSE PadText(n \div 10, w - 1) \o <<Digits[(n % 10) + 1]>>

RECURSIVE StripZeros(_)
StripZeros(s) == IF Len(s) > 0 /\ s[Len(s)] = "0"
                 THEN StripZeros(SubSeq(s, 1, Len(s) - 1)) ELSE s

(***************************************************************************)
(* time.Time, time.Format and time.Parse with the layout RFC3339Nano.      *)
(* A time is an instant (sec, nsec) and the zone offset it is shown in.    *)
(* The calendar fields of the layout are collapsed into one two-digit      *)
(* field "SS" counted in the zone of the time; the fractional second has   *)
(* FracDigits digits with trailing zeros removed and is omitted when zero; *)
(* the zone is "Z" for offset 0 and "+NN" otherwise.                       *)
(***************************************************************************)
Time(sec, nsec, off) == [sec |-> sec, nsec |-> nsec, off |-> off]

SameInstant(t, u) == t.sec = u.sec /\ t.nsec = u.nsec

TimeFormat(t) ==
  PadText(t.sec + t.off, 2)
  \o (IF t.nsec = 0 THEN <<>> ELSE <<".">> \o StripZeros(PadText(t.nsec, FracDigits)))
  \o (IF t.off = 0 THEN <<"Z">> ELSE <<"+">> \o PadText(t.off, 2))

\* the zone suffix of s starting at position i: "Z" or "+NN"
ZoneAt(s, i) ==
  IF Len(s) = i /\ s[i] = "Z" THEN Some(0)
  ELSE IF Len(s) = i + 2 /\ s[i] = "+" /\ IsDigit(s[i + 1]) /\ IsDigit(s[i + 2])
            /\ DigitsVal(SubSeq(s, i + 1, i + 2)) > 0
       THEN Some(DigitsVal(SubSeq(s, i + 1, i + 2)))
       ELSE Nil

\* the number of digits of s from position i on
RECURSIVE DigitRun(_, _)
DigitRun(s, i) == IF i <= Len(s) /\ IsDigit(s[i]) THEN 1 + DigitRun(s, i + 1) ELSE 0

\* time.Parse(time.RFC3339Nano, s): [err |-> BOOLEAN, t |-> the time]
TimeParse(s) ==
  LET bad == [err |-> TRUE, t |-> Time(0, 0, 0)]
  IN IF ~(Len(s) >= 3 /\ IsDigit(s[1]) /\ IsDigit(s[2])) THEN bad
     ELSE LET wall == DigitsVal(SubSeq(s, 1, 2))
              n    == IF s[3] = "." THEN DigitRun(s, 4) ELSE 0
              zpos == IF s[3] = "." THEN 4 + n ELSE 3
              zone == ZoneAt(s, zpos)
              frac == IF n = 0 THEN 0
                      ELSE DigitsVal(SubSeq(s, 4, 3 + n)) * Pow10(FracDigits - n)
          IN IF (s[3] = "." /\ (n = 0 \/ n > FracDigits)) \/ IsNil(zone)
             THEN bad
             ELSE [err |-> FALSE, t |-> Time(wall - Get(zone), frac, Get(zone))]

(***************************************************************************)
(* Numbers.  int64 and uint64 are WordBits wide (64 in Go); a float64 has  *)
(* a mantissa of MantBits bits (53 in Go) and is kept as the integer       *)
(* q = value * FUnit, so that its smallest step is 1 / FUnit.              *)
(***************************************************************************)
WordBits == 6
MantBits == 4
FracBits == 2

RECURSIVE Pow2(_)
Pow2(n) == IF n = 0 THEN 1 ELSE 2 * Pow2(n - 1)

MinInt64 == 0 - Pow2(WordBits - 1)
MaxInt64 == Pow2(WordBits - 1) - 1
MaxUint64 == Pow2(WordBits) - 1
FUnit == Pow2(FracBits)

Abs(n) == IF n < 0 THEN 0 - n ELSE n

\* a / b rounded to the nearest integer, ties to even (a >= 0, b > 0)
RoundDiv(a, b) ==
  LET d == a \div b
      r == a % b
  IN IF 2 * r > b \/ (2 * r = b /\ d % 2 = 1) THEN d + 1 ELSE d

\* the number of low bits a mantissa of MantBits bits drops for a / b
RECURSIVE Shift(_, _)
Shift(a, b) == IF a \div b < Pow2(MantBits) THEN 0 ELSE 1 + Shift(a, 2 * b)

\* the float64 nearest to num / den (den > 0), as q
RoundFloat(num, den) ==
  LET a == Abs(num) * FUnit
      k == Shift(a, den)
      m == RoundDiv(a, den * Pow2(k)) * Pow2(k)
  IN IF num < 0 THEN 0 - m ELSE m

\* float64(i) for an integer i
FloatOfInt(i) == RoundFloat(i, 1)

\* the float64 q truncated towards zero
Trunc(q) == IF q < 0 THEN 0 - ((0 - q) \div FUnit) ELSE q \div FUnit

\* int64(f): the conversion of a value that does not fit is implementation
\* specific: amd64 yields the smallest int64, arm64 saturates
Archs == {"amd64", "arm64"}
Int64OfFloat(q, arch) ==
  LET i == Trunc(q)
  IN IF i >= MinInt64 /\ i <= MaxInt64 THEN i
     ELSE IF arch = "amd64" THEN MinInt64
     ELSE IF i < 0 THEN MinInt64 ELSE MaxInt64

\* uint64(f): amd64 converts through int64 below 2^63 (a negative value
\* wraps around) and yields 0 above the range, arm64 saturates
Uint64OfFloat(q, arch) ==
  LET i == Trunc(q)
  IN IF i >= 0 /\ i <= MaxUint64 THEN i
     ELSE IF arch = "arm64" THEN (IF i < 0 THEN 0 ELSE MaxUint64)
     ELSE IF i < 0 THEN (IF i >= MinInt64 THEN i + Pow2(WordBits) ELSE Pow2(WordBits - 1))
     ELSE 0

\* int64(u) and uint64(i): two's complement reinterpretation
Int64OfUint(u) == IF u > MaxInt64 THEN u - Pow2(WordBits) ELSE u
Uint64OfInt(i) == IF i < 0 THEN i + Pow2(WordBits) ELSE i

\* strconv.FormatInt(i, 10) and strconv.FormatUint(u, 10)
FormatInt(i) == IF i < 0 THEN <<"-">> \o NatText(0 - i) ELSE NatText(i)
FormatUint(u) == NatText(u)

\* the value of a run of hexadecimal digits, and the length of the run of s
\* from position i on
HexDigits == Digits \o <<"a", "b", "c", "d", "e", "f">>
IsHexDigit(c) == \E i \in 1..16 : HexDigits[i] = c
RECURSIVE HexVal(_)
HexVal(s) == IF Len(s) = 0 THEN 0
             ELSE 16 * HexVal(SubSeq(s, 1, Len(s) - 1))
                  + (CHOOSE i \in 1..16 : HexDigits[i] = s[Len(s)]) - 1
RECURSIVE HexRun(_, _)
HexRun(s, i) == IF i <= Len(s) /\ IsHexDigit(s[i]) THEN 1 + HexRun(s, i + 1) ELSE 0

\* the hexadecimal form 0x<hex digits>p[+-]<digits> that ParseFloat accepts
\* besides the decimal one: the mantissa times two to the exponent
ParseHexFloat(body) ==
  LET nm   == HexRun(body, 3)
      ppos == 3 + nm
      sgn  == Len(body) > ppos /\ (body[ppos + 1] = "-" \/ body[ppos + 1] = "+")
      epos == IF sgn THEN ppos + 2 ELSE ppos + 1
      ne   == DigitRun(body, epos)
      ok   == /\ nm > 0
              /\ Len(body) >= ppos /\ body[ppos] = "p"
              /\ ne > 0 /\ epos + ne - 1 = Len(body)
      mant == HexVal(SubSeq(body, 3, 2 + nm))
      ex   == DigitsVal(SubSeq(body, epos, Len(body)))
  IN IF ~ok THEN [err |-> TRUE, f |-> 0]
     ELSE IF sgn /\ body[ppos + 1] = "-"
     THEN [err |-> FALSE, f |-> RoundFloat(mant, Pow2(ex))]
     ELSE [err |-> FALSE, f |-> RoundFloat(mant * Pow2(ex), 1)]

\* strconv.ParseFloat(s, 64) for the decimal texts [+-]digits[.digits] and
\* the hexadecimal texts [+-]0x<hex digits>p[+-]<digits>; the other texts of
\* the model are syntax errors: [err |-> BOOLEAN, f |-> q]
ParseFloat(s) ==
  LET bad  == [err |-> TRUE, f |-> 0]
      neg  == Len(s) > 0 /\ s[1] = "-"
      body == IF Len(s) > 0 /\ (s[1] = "-" \/ s[1] = "+") THEN Tail(s) ELSE s
      hex  == Len(body) > 2 /\ body[1] = "0" /\ body[2] = "x"
      ni   == DigitRun(body, 1)
      dot  == Len(body) > ni /\ body[ni + 1] = "."
      nf   == IF dot THEN DigitRun(body, ni + 2) ELSE 0
      used == ni + (IF dot THEN 1 + nf ELSE 0)
  IN IF hex
     THEN LET h == ParseHexFloat(body)
          IN IF h.err THEN bad ELSE [err |-> FALSE, f |-> IF neg THEN 0 - h.f ELSE h.f]
     ELSE IF used /= Len(body) \/ ni + nf = 0 THEN bad
     ELSE LET num == DigitsVal(SubSeq(body, 1, ni)) * Pow10(nf)
                     + DigitsVal(SubSeq(body, ni + 2, ni + 1 + nf))
              q   == RoundFloat(num, Pow10(nf))
          IN [err |-> FALSE, f |-> IF neg THEN 0 - q ELSE q]

\* the decimal text of |q| / FUnit rounded to s fractional digits
FixedText(q, s) ==
  LET n == RoundDiv(Abs(q) * Pow10(s), FUnit)
      t == (IF s = 0 THEN NatText(n)
            ELSE NatText(n \div Pow10(s)) \o <<".">> \o PadText(n % Pow10(s), s))
  IN IF q < 0 THEN <<"-">> \o t ELSE t

\* the decimal text of |q| / FUnit rounded to a multiple of 10^z
RoundedText(q, z) ==
  LET n == RoundDiv(Abs(q), FUnit * Pow10(z)) * Pow10(z)
  IN IF q < 0 THEN <<"-">> \o NatText(n) ELSE NatText(n)

\* strconv.FormatFloat(f, 'f', -1, 64): the fewest digits that parse back to
\* f, without exponent
MaxZeros == 2
FormatFloat(q) ==
  LET zs == {z \in 1..MaxZeros : ParseFloat(RoundedText(q, z)).f = q}
      ss == {s \in 0..FracBits : ParseFloat(FixedText(q, s)).f = q}
  IN IF zs /= {} THEN RoundedText(q, CHOOSE z \in zs : \A y \in zs : y <= z)
     ELSE FixedText(q, CHOOSE s \in ss : \A y \in ss : s <= y)

(***************************************************************************)
(* The tagged-value node: type codec struct { kind reflect.Kind; value any }*)
(* The value of a node of kind Slice is a sequence of *codec (Nil for a    *)
(* slot that holds no node yet), the value of a node of kind Map a         *)
(* function from its keys to nodes.                                        *)
(***************************************************************************)
Keys == {"a", "b"}
\* the orders in which a Go range statement can visit the keys of a map
KeyOrders == {<<"a", "b">>, <<"b", "a">>}

encodeValue(x, kind) == [kind |-> kind, value |-> x]

\* codec{}: the zero value (reflect.Invalid is kind 0)
ZeroCodec == encodeValue(NilAny, "Invalid")

EncodeNil == encodeValue(NilAny, "Interface")
EncodeBool(x) == encodeValue(AnyOf("bool", x), "Bool")
EncodeInt(x) == encodeValue(AnyOf("int64", x), "Int64")
\* EncodeUint that tags the unsigned payload with the signed kind
EncodeUint_SignedKind(x) == encodeValue(AnyOf("uint64", x), "Int64")
EncodeUint(x) == encodeValue(AnyOf("uint64", x), "Uint64")
EncodeBytes(x) == encodeValue(AnyOf("[]byte", x), "Array")
EncodeFloat(x) == encodeValue(AnyOf("float64", x), "Float64")
EncodeComplex(x) == encodeValue(AnyOf("complex128", x), "Complex128")

\* EncodeString without the collapse of the empty string
EncodeString_NoCollapse(x) == encodeValue(AnyOf("string", x), "String")

EncodeString(x) ==
  IF Len(x) = 0 THEN EncodeNil ELSE encodeValue(AnyOf("string", x), "String")

\* EncodeSpecial that accepts every value, formatting the other types as the
\* zero time
EncodeSpecial_AcceptsAll(c, v) ==
  [codec |-> EncodeString(TimeFormat(IF v.t = "time.Time" THEN v.v ELSE Time(0, 0, 0))),
   ok |-> TRUE, err |-> Nil]

\* EncodeSpecial(v) on a node that holds c: the node it leaves and the
\* (bool, error) it returns
typeOfGoTime == "time.Time"
EncodeSpecial(c, v) ==
  IF v.t = typeOfGoTime
  THEN [codec |-> EncodeString(TimeFormat(v.v)), ok |-> TRUE, err |-> Nil]
  ELSE [codec |-> c, ok |-> FALSE, err |-> Nil]

\* reflect.TypeOf(x).Kind() for the dynamic types a node value can have
KindOfType(t) ==
  CASE t = "bool" -> "bool"
    [] t = "int64" -> "int64"
    [] t = "uint64" -> "uint64"
    [] t = "float64" -> "float64"
    [] t = "complex128" -> "complex128"
    [] t = "string" -> "string"
    [] t = "time.Time" -> "struct"
    [] t = "map[string]*codec" -> "map"
    [] OTHER -> "slice"

(***************************************************************************)
(* Wire values.  V1: dyn.AttributeValue, a struct of nil-able fields.      *)
(* V2: dyn2Types.AttributeValue, an interface with one member type per     *)
(* kind; member "nil" is the nil interface.                                *)
(***************************************************************************)
V1Zero == [NULL |-> Nil, BOOL |-> Nil, N |-> Nil, B |-> Nil, S |-> Nil,
           L |-> Nil, M |-> Nil, SS |-> Nil, NS |-> Nil, BS |-> Nil]
SetNULL(v) == [V1Zero EXCEPT !.NULL = Some(v)]
SetBOOL(v) == [V1Zero EXCEPT !.BOOL = Some(v)]
SetN(v) == [V1Zero EXCEPT !.N = Some(v)]
SetS(v) == [V1Zero EXCEPT !.S = Some(v)]
\* B, L, M, SS, NS and BS are slices and maps: the field is nil when v is
SetB(v) == [V1Zero EXCEPT !.B = v]
SetL(v) == [V1Zero EXCEPT !.L = v]
SetM(v) == [V1Zero EXCEPT !.M = v]
SetSS(v) == [V1Zero EXCEPT !.SS = v]
SetNS(v) == [V1Zero EXCEPT !.NS = v]
SetBS(v) == [V1Zero EXCEPT !.BS = v]

nullValue == SetNULL(TRUE)

Member(m, v) == [member |-> m, Value |-> v]
V2Nil == Member("nil", Nil)

\* the result of a rendering or a decoding: a panic, or (value, error)
Ok(x) == [panic |-> FALSE, err |-> Nil, val |-> Some(x)]
Err(code, what) == [panic |-> FALSE, err |-> Some([code |-> code, what |-> what]), val |-> Nil]
Panic == [panic |-> TRUE, err |-> Nil, val |-> Nil]
Failed(r) == r.panic \/ ~IsNil(r.err)
Succeeded(r) == ~Failed(r) /\ ~IsNil(r.val)

\* the first index of the sequence rs that holds a failure, 0 if none
FirstFailed(rs) ==
  IF \E i \in 1..Len(rs) : Failed(rs[i])
  THEN CHOOSE i \in 1..Len(rs) : Failed(rs[i]) /\ \A j \in 1..(i - 1) : ~Failed(rs[j])
  ELSE 0

\* the keys of the map m in the order ord
KeysIn(m, ord) == SelectSeq(ord, LAMBDA k : k \in DOMAIN m)

unknownType(e) ==
  IF e.value.t = "nil" THEN Panic
  ELSE Err("InvalidArgument", KindOfType(e.value.t))

RECURSIVE asV1AttributeValue(_, _)
asV1AttributeValue(e, ord) ==
  CASE e.kind = "Interface" -> Ok(nullValue)
    [] e.kind = "Bool" ->
         IF e.value.t /= "bool" THEN Panic ELSE Ok(SetBOOL(e.value.v))
    [] e.kind = "Int64" ->
         IF e.value.t /= "int64" THEN Panic ELSE Ok(SetN(FormatInt(e.value.v)))
    [] e.kind = "Uint64" ->
         IF e.value.t /= "uint64" THEN Panic ELSE Ok(SetN(FormatUint(e.value.v)))
    [] e.kind = "Array" ->
         IF e.value.t /= "[]byte" THEN Panic ELSE Ok(SetB(e.value.v))
    [] e.kind = "Float64" ->
         IF e.value.t /= "float64" THEN Panic ELSE Ok(SetN(FormatFloat(e.value.v)))
    [] e.kind = "String" ->
         IF e.value.t /= "string" THEN Panic ELSE Ok(SetS(e.value.v))
    [] e.kind = "Complex128" ->
         IF e.value.t /= "complex128" THEN Panic
         ELSE Ok(SetL(Some(<<SetN(FormatFloat(e.value.v.re)),
                            SetN(FormatFloat(e.value.v.im))>>)))
    [] e.kind = "Slice" ->
         IF e.value.t /= "[]*codec" THEN Panic
         ELSE LET es == e.value.v
                  rs == [i \in 1..Len(es) |->
                           IF IsNil(es[i]) THEN Panic
                           ELSE asV1AttributeValue(Get(es[i]), ord)]
                  f  == FirstFailed(rs)
              IN IF f /= 0 THEN rs[f]
                 ELSE Ok(SetL(Some([i \in 1..Len(es) |-> Get(rs[i].val)])))
    [] e.kind = "Map" ->
         IF e.value.t /= "map[string]*codec" THEN Panic
         ELSE LET em == e.value.v
                  ks == KeysIn(em, ord)
                  rs == [i \in 1..Len(ks) |-> asV1AttributeValue(em[ks[i]], ord)]
                  f  == FirstFailed(rs)
              IN IF f /= 0 THEN rs[f]
                 ELSE Ok(SetM(Some([k \in DOMAIN em |->
                                      Get(asV1AttributeValue(em[k], ord).val)])))
    [] OTHER -> unknownType(e)

RECURSIVE asV2AttributeValue(_, _)
asV2AttributeValue(e, ord) ==
  CASE e.kind = "Interface" -> Ok(Member("NULL", FALSE))
    [] e.kind = "Bool" ->
         IF e.value.t /= "bool" THEN Panic ELSE Ok(Member("BOOL", e.value.v))
    [] e.kind = "Int64" ->
         IF e.value.t /= "int64" THEN Panic ELSE Ok(Member("N", FormatInt(e.value.v)))
    [] e.kind = "Uint64" ->
         IF e.value.t /= "uint64" THEN Panic ELSE Ok(Member("N", FormatUint(e.value.v)))
    [] e.kind = "Array" ->
         IF e.value.t /= "[]byte" THEN Panic ELSE Ok(Member("B", e.value.v))
    [] e.kind = "Float64" ->
         IF e.value.t /= "float64" THEN Panic ELSE Ok(Member("N", FormatFloat(e.value.v)))
    [] e.kind = "String" ->
         IF e.value.t /= "string" THEN Panic ELSE Ok(Member("S", e.value.v))
    [] e.kind = "Complex128" ->
         IF e.value.t /= "complex128" THEN Panic
         ELSE Ok(Member("L", Some(<<Member("N", FormatFloat(e.value.v.re)),
                                    Member("N", FormatFloat(e.value.v.im))>>)))
    [] e.kind = "Slice" ->
         IF e.value.t /= "[]*codec" THEN Panic
         ELSE LET es == e.value.v
                  rs == [i \in 1..Len(es) |->
                           IF IsNil(es[i]) THEN Panic
                           ELSE asV2AttributeValue(Get(es[i]), ord)]
                  f  == FirstFailed(rs)
              IN IF f /= 0 THEN rs[f]
                 ELSE Ok(Member("L", Some([i \in 1..Len(es) |-> Get(rs[i].val)])))
    [] e.kind = "Map" ->
         IF e.value.t /= "map[string]*codec" THEN Panic
         ELSE LET em == e.value.v
                  ks == KeysIn(em, ord)
                  rs == [i \in 1..Len(ks) |-> asV2AttributeValue(em[ks[i]], ord)]
                  f  == FirstFailed(rs)
              IN IF f /= 0 THEN rs[f]
                 ELSE Ok(Member("M", Some([k \in DOMAIN em |->
                                             Get(asV2AttributeValue(em[k], ord).val)])))
    [] OTHER -> unknownType(e)

\* asV1AttributeMap and asV2AttributeMap: the entries of the wire map of a
\* node of kind Map; for another kind the error message names
\* reflect.TypeOf(e.value).Kind(), which panics when e.value is nil
asV1AttributeMap(e, ord) ==
  IF e.kind /= "Map" THEN unknownType(e)
  ELSE LET r == asV1AttributeValue(e, ord)
       IN IF Failed(r) THEN r ELSE Ok(Get(Get(r.val).M))

asV2AttributeMap(e, ord) ==
  IF e.kind /= "Map" THEN unknownType(e)
  ELSE LET r == asV2AttributeValue(e, ord)
       IN IF Failed(r) THEN r
          ELSE IF Get(r.val).member /= "M" THEN Panic
          ELSE Ok(Get(Get(r.val).Value))

(***************************************************************************)
(* Decoding: the tagged-value tree of a wire value.  ord is the order in   *)
(* which range visits map keys, arch the platform of the build.            *)
(***************************************************************************)
\* newDecoder that gives a nil value the kind and payload of an empty string
newDecoder_NilAsString(x, kind) ==
  IF x.t = "nil" THEN [kind |-> "String", value |-> AnyOf("string", <<>>)]
  ELSE [kind |-> kind, value |-> x]

newDecoder(x, kind) == [kind |-> kind, value |-> x]

RECURSIVE newV1Decoder(_, _, _)
newV1Decoder(av, ord, arch) ==
  CASE ~IsNil(av.NULL) -> Ok(newDecoder(NilAny, "Interface"))
    [] IsNil(av.NULL) /\ ~IsNil(av.BOOL) -> Ok(newDecoder(AnyOf("bool", Get(av.BOOL)), "Bool"))
    [] IsNil(av.NULL) /\ IsNil(av.BOOL) /\ ~IsNil(av.N) ->
         LET p == ParseFloat(Get(av.N))
             f == p.f
             i == Int64OfFloat(f, arch)
             u == Uint64OfFloat(f, arch)
         IN IF p.err THEN Err("Syntax", Get(av.N))
            ELSE IF FloatOfInt(i) = f THEN Ok(newDecoder(AnyOf("int64", i), "Int64"))
            ELSE IF FloatOfInt(u) = f THEN Ok(newDecoder(AnyOf("uint64", u), "Uint64"))
            ELSE Ok(newDecoder(AnyOf("float64", f), "Float64"))
    [] IsNil(av.NULL) /\ IsNil(av.BOOL) /\ IsNil(av.N) /\ ~IsNil(av.B) ->
         Ok(newDecoder(AnyOf("[]byte", av.B), "Array"))
    [] IsNil(av.NULL) /\ IsNil(av.BOOL) /\ IsNil(av.N) /\ IsNil(av.B) /\ ~IsNil(av.S) ->
         LET p == TimeParse(Get(av.S))
         IN IF ~p.err THEN Ok(newDecoder(AnyOf("time.Time", p.t), "Chan"))
            ELSE Ok(newDecoder(AnyOf("string", Get(av.S)), "String"))
    [] IsNil(av.NULL) /\ IsNil(av.BOOL) /\ IsNil(av.N) /\ IsNil(av.B) /\ IsNil(av.S)
       /\ ~IsNil(av.L) ->
         LET l  == Get(av.L)
             rs == [i \in 1..Len(l) |-> newV1Decoder(l[i], ord, arch)]
             f  == FirstFailed(rs)
         IN IF f /= 0 THEN rs[f]
            ELSE Ok(newDecoder(AnyOf("[]*codec", [i \in 1..Len(l) |-> rs[i].val]), "Slice"))
    [] IsNil(av.NULL) /\ IsNil(av.BOOL) /\ IsNil(av.N) /\ IsNil(av.B) /\ IsNil(av.S)
       /\ IsNil(av.L) /\ ~IsNil(av.M) ->
         LET m  == Get(av.M)
             ks == KeysIn(m, ord)
             rs == [i \in 1..Len(ks) |-> newV1Decoder(m[ks[i]], ord, arch)]
             f  == FirstFailed(rs)
         IN IF f /= 0 THEN rs[f]
            ELSE Ok(newDecoder(AnyOf("map[string]*codec",
                      [k \in DOMAIN m |-> Get(newV1Decoder(m[k], ord, arch).val)]), "Map"))
    [] IsNil(av.NULL) /\ IsNil(av.BOOL) /\ IsNil(av.N) /\ IsNil(av.B) /\ IsNil(av.S)
       /\ IsNil(av.L) /\ IsNil(av.M) /\ ~IsNil(av.SS) ->
         Ok(newDecoder(AnyOf("[]*string", av.SS), "Invalid"))
    [] IsNil(av.NULL) /\ IsNil(av.BOOL) /\ IsNil(av.N) /\ IsNil(av.B) /\ IsNil(av.S)
       /\ IsNil(av.L) /\ IsNil(av.M) /\ IsNil(av.SS) /\ ~IsNil(av.NS) ->
         Ok(newDecoder(AnyOf("[]*string", av.NS), "Invalid"))
    [] IsNil(av.NULL) /\ IsNil(av.BOOL) /\ IsNil(av.N) /\ IsNil(av.B) /\ IsNil(av.S)
       /\ IsNil(av.L) /\ IsNil(av.M) /\ IsNil(av.SS) /\ IsNil(av.NS) /\ ~IsNil(av.BS) ->
         Ok(newDecoder(AnyOf("[][]byte", av.BS), "Invalid"))
    [] OTHER -> Err("NotSupported", <<>>)

RECURSIVE newV2Decoder(_, _, _)
newV2Decoder(av, ord, arch) ==
  CASE av.member = "B" -> Ok(newDecoder(AnyOf("[]byte", av.Value), "Array"))
    [] av.member = "BOOL" -> Ok(newDecoder(AnyOf("bool", av.Value), "Bool"))
    [] av.member = "BS" -> Ok(newDecoder(AnyOf("[][]byte", av.Value), "Invalid"))
    [] av.member = "L" ->
         LET l  == Get(av.Value)
             rs == [i \in 1..Len(l) |-> newV2Decoder(l[i], ord, arch)]
             f  == FirstFailed(rs)
         IN IF f /= 0 THEN rs[f]
            ELSE Ok(newDecoder(AnyOf("[]*codec", [i \in 1..Len(l) |-> rs[i].val]), "Slice"))
    [] av.member = "M" ->
         LET m  == Get(av.Value)
             ks == KeysIn(m, ord)
             rs == [i \in 1..Len(ks) |-> newV2Decoder(m[ks[i]], ord, arch)]
             f  == FirstFailed(rs)
         IN IF f /= 0 THEN rs[f]
            ELSE Ok(newDecoder(AnyOf("map[string]*codec",
                      [k \in DOMAIN m |-> Get(newV2Decoder(m[k], ord, arch).val)]), "Map"))
    [] av.member = "N" ->
         LET p == ParseFloat(av.Value)
             f == p.f
             i == Int64OfFloat(f, arch)
             u == Uint64OfFloat(f, arch)
         IN IF p.err THEN Err("Syntax", av.Value)
            ELSE IF FloatOfInt(i) = f THEN Ok(newDecoder(AnyOf("int64", i), "Int64"))
            ELSE IF FloatOfInt(u) = f THEN Ok(newDecoder(AnyOf("uint64", u), "Uint64"))
            ELSE Ok(newDecoder(AnyOf("float64", f), "Float64"))
    [] av.member = "NS" -> Ok(newDecoder(AnyOf("[]string", av.Value), "Invalid"))
    [] av.member = "NULL" -> Ok(newDecoder(NilAny, "Interface"))
    [] av.member = "S" -> Ok(newDecoder(AnyOf("string", av.Value), "String"))
    [] av.member = "SS" -> Ok(newDecoder(AnyOf("[]string", av.Value), "Invalid"))
    [] OTHER -> Err("NotSupported", <<>>)

(***************************************************************************)
(* The read accessors of a node d.  A result is [panic, v, ok]; a failed   *)
(* type assertion d.value.(T) panics.                                      *)
(***************************************************************************)
Got(v, ok) == [panic |-> FALSE, v |-> v, ok |-> ok]
GotPanic == [panic |-> TRUE, v |-> <<>>, ok |-> FALSE]

AsBool(d) ==
  IF d.kind /= "Bool" THEN Got(FALSE, FALSE)
  ELSE IF d.value.t /= "bool" THEN GotPanic ELSE Got(d.value.v, TRUE)

AsNull(d) == d.kind = "Interface"

AsString(d) ==
  IF d.kind /= "String" THEN Got(<<>>, FALSE)
  ELSE IF d.value.t = "nil" THEN Got(<<>>, TRUE)
  ELSE IF d.value.t /= "string" THEN GotPanic ELSE Got(d.value.v, TRUE)

AsInt(d) ==
  CASE d.kind = "Int64" ->
         IF d.value.t = "nil" THEN Got(0, TRUE)
         ELSE IF d.value.t /= "int64" THEN GotPanic ELSE Got(d.value.v, TRUE)
    [] d.kind = "Uint64" ->
         IF d.value.t = "nil" THEN Got(0, TRUE)
         ELSE IF d.value.t /= "uint64" THEN GotPanic ELSE Got(Int64OfUint(d.value.v), TRUE)
    [] OTHER -> Got(0, FALSE)

AsUint(d) ==
  CASE d.kind = "Int64" ->
         IF d.value.t = "nil" THEN Got(0, TRUE)
         ELSE IF d.value.t /= "int64" THEN GotPanic ELSE Got(Uint64OfInt(d.value.v), TRUE)
    [] d.kind = "Uint64" ->
         IF d.value.t = "nil" THEN Got(0, TRUE)
         ELSE IF d.value.t /= "uint64" THEN GotPanic ELSE Got(d.value.v, TRUE)
    [] OTHER -> Got(0, FALSE)

AsFloat(d) ==
  CASE d.kind = "Int64" ->
         IF d.value.t = "nil" THEN Got(0, TRUE)
         ELSE IF d.value.t /= "int64" THEN GotPanic ELSE Got(FloatOfInt(d.value.v), TRUE)
    [] d.kind = "Uint64" ->
         IF d.value.t = "nil" THEN Got(0, TRUE)
         ELSE IF d.value.t /= "uint64" THEN GotPanic ELSE Got(FloatOfInt(d.value.v), TRUE)
    [] d.kind = "Float64" ->
         IF d.value.t = "nil" THEN Got(0, TRUE)
         ELSE IF d.value.t /= "float64" THEN GotPanic ELSE Got(d.value.v, TRUE)
    [] OTHER -> Got(0, FALSE)

Complex(re, im) == [re |-> re, im |-> im]

\* AsComplex that reads a node of kind Complex128 only, not the list form
AsComplex_NoList(d) ==
  IF d.kind = "Complex128"
  THEN (IF d.value.t /= "complex128" THEN GotPanic ELSE Got(d.value.v, TRUE))
  ELSE Got(Complex(0, 0), FALSE)

AsComplex(d) ==
  CASE d.kind = "Complex128" ->
         IF d.value.t /= "complex128" THEN GotPanic ELSE Got(d.value.v, TRUE)
    [] d.kind = "Slice" ->
         IF d.value.t /= "[]*codec" THEN GotPanic
         ELSE LET l == d.value.v
              IN IF Len(l) /= 2 THEN Got(Complex(0, 0), FALSE)
                 ELSE IF IsNil(l[1]) THEN GotPanic
                 ELSE LET r == AsFloat(Get(l[1]))
                      IN IF r.panic THEN GotPanic
                         ELSE IF ~r.ok THEN Got(Complex(0, 0), FALSE)
                         ELSE IF IsNil(l[2]) THEN GotPanic
                         ELSE LET i == AsFloat(Get(l[2]))
                              IN IF i.panic THEN GotPanic
                                 ELSE IF ~i.ok THEN Got(Complex(0, 0), FALSE)
                                 ELSE Got(Complex(r.v, i.v), TRUE)
    [] OTHER -> Got(Complex(0, 0), FALSE)

AsBytes(d) ==
  IF d.kind /= "Array" THEN Got(Nil, FALSE)
  ELSE IF d.value.t /= "[]byte" THEN GotPanic ELSE Got(d.value.v, TRUE)

ListLen(d) ==
  IF d.kind /= "Slice" THEN Got(0, FALSE)
  ELSE IF d.value.t /= "[]*codec" THEN GotPanic ELSE Got(Len(d.value.v), TRUE)

MapLen(d) ==
  IF d.kind /= "Map" THEN Got(0, FALSE)
  ELSE IF d.value.t /= "map[string]*codec" THEN GotPanic
  ELSE Got(Cardinality(DOMAIN d.value.v), TRUE)

\* DecodeList(f) and DecodeMap(f): the calls of f made, in order, when f
\* returns false at its stop-th call (stop = 0: f never returns false); ord is
\* the order in which range visits the keys
Visits(calls) == [panic |-> FALSE, calls |-> calls]
VisitsPanic == [panic |-> TRUE, calls |-> <<>>]

DecodeList(d, stop) ==
  IF d.kind /= "Slice" THEN Visits(<<>>)
  ELSE IF d.value.t /= "[]*codec" THEN VisitsPanic
  ELSE LET s == d.value.v
           n == IF stop = 0 \/ stop > Len(s) THEN Len(s) ELSE stop
       IN Visits([i \in 1..n |-> [i |-> i - 1, vd |-> s[i]]])

DecodeMap(d, ord, stop) ==
  IF d.kind /= "Map" THEN Visits(<<>>)
  ELSE IF d.value.t /= "map[string]*codec" THEN VisitsPanic
  ELSE LET m  == d.value.v
           ks == KeysIn(m, ord)
           n  == IF stop = 0 \/ stop > Len(ks) THEN Len(ks) ELSE stop
       IN Visits([i \in 1..n |-> [key |-> ks[i], vd |-> m[ks[i]], exactMatch |-> TRUE]])

\* AsInterface returns (d.value, nil)
AsInterface(d) == [val |-> d.value, err |-> Nil]

\* the (interface{}, error) of the conversions of a wire value to a plain Go
\* value
GoValue(v, err) == [val |-> v, err |-> err]
\* the first index of the sequence rs of such results that holds an error,
\* 0 if none
FirstError(rs) ==
  IF \E i \in 1..Len(rs) : ~IsNil(rs[i].err)
  THEN CHOOSE i \in 1..Len(rs) : ~IsNil(rs[i].err) /\ \A j \in 1..(i - 1) : IsNil(rs[j].err)
  ELSE 0

\* the plain number of a wire number text
NumberValue(text, arch) ==
  LET p == ParseFloat(text)
      f == p.f
      i == Int64OfFloat(f, arch)
      u == Uint64OfFloat(f, arch)
  IN IF p.err THEN GoValue(NilAny, Some("syntax"))
     ELSE IF FloatOfInt(i) = f THEN GoValue(AnyOf("int64", i), Nil)
     ELSE IF FloatOfInt(u) = f THEN GoValue(AnyOf("uint64", u), Nil)
     ELSE GoValue(AnyOf("float64", f), Nil)

\* toGoValue(av) of a V1 wire value: a failing element ends the conversion
\* with (nil, err)
RECURSIVE toGoValue(_, _, _)
toGoValue(av, ord, arch) ==
  CASE ~IsNil(av.NULL) -> GoValue(NilAny, Nil)
    [] IsNil(av.NULL) /\ ~IsNil(av.BOOL) -> GoValue(AnyOf("bool", Get(av.BOOL)), Nil)
    [] IsNil(av.NULL) /\ IsNil(av.BOOL) /\ ~IsNil(av.N) -> NumberValue(Get(av.N), arch)
    [] IsNil(av.NULL) /\ IsNil(av.BOOL) /\ IsNil(av.N) /\ ~IsNil(av.B) ->
         GoValue(AnyOf("[]byte", av.B), Nil)
    [] IsNil(av.NULL) /\ IsNil(av.BOOL) /\ IsNil(av.N) /\ IsNil(av.B) /\ ~IsNil(av.S) ->
         GoValue(AnyOf("string", Get(av.S)), Nil)
    [] IsNil(av.NULL) /\ IsNil(av.BOOL) /\ IsNil(av.N) /\ IsNil(av.B) /\ IsNil(av.S)
       /\ ~IsNil(av.L) ->
         LET l  == Get(av.L)
             rs == [i \in 1..Len(l) |-> toGoValue(l[i], ord, arch)]
             f  == FirstError(rs)
         IN IF f /= 0 THEN GoValue(NilAny, rs[f].err)
            ELSE GoValue(AnyOf("[]interface {}", [i \in 1..Len(l) |-> rs[i].val]), Nil)
    [] IsNil(av.NULL) /\ IsNil(av.BOOL) /\ IsNil(av.N) /\ IsNil(av.B) /\ IsNil(av.S)
       /\ IsNil(av.L) /\ ~IsNil(av.M) ->
         LET m  == Get(av.M)
             ks == KeysIn(m, ord)
             rs == [i \in 1..Len(ks) |-> toGoValue(m[ks[i]], ord, arch)]
             f  == FirstError(rs)
         IN IF f /= 0 THEN GoValue(NilAny, rs[f].err)
            ELSE GoValue(AnyOf("map[string]interface {}",
                           [k \in DOMAIN m |-> toGoValue(m[k], ord, arch).val]), Nil)
    [] OTHER -> GoValue(NilAny, Some("not supported"))

\* toGoValueV2(av) of a V2 wire value: a failing element ends the conversion
\* with (l, err) or (m, err), the list or map as filled so far, the failing
\* element's own result included
RECURSIVE toGoValueV2(_, _, _)
toGoValueV2(av, ord, arch) ==
  CASE av.member = "B" -> GoValue(AnyOf("[]byte", av.Value), Nil)
    [] av.member = "BOOL" -> GoValue(AnyOf("bool", av.Value), Nil)
    [] av.member = "BS" -> GoValue(AnyOf("[][]byte", av.Value), Nil)
    [] av.member = "L" ->
         LET l  == Get(av.Value)
             rs == [i \in 1..Len(l) |-> toGoValueV2(l[i], ord, arch)]
             f  == FirstError(rs)
         IN IF f /= 0
            THEN GoValue(AnyOf("[]interface {}",
                           [i \in 1..Len(l) |-> IF i <= f THEN rs[i].val ELSE NilAny]),
                         rs[f].err)
            ELSE GoValue(AnyOf("[]interface {}", [i \in 1..Len(l) |-> rs[i].val]), Nil)
    [] av.member = "M" ->
         LET m  == Get(av.Value)
             ks == KeysIn(m, ord)
             rs == [i \in 1..Len(ks) |-> toGoValueV2(m[ks[i]], ord, arch)]
             f  == FirstError(rs)
         IN IF f /= 0
            THEN GoValue(AnyOf("map[string]interface {}",
                           [k \in {ks[i] : i \in 1..f} |->
                              toGoValueV2(m[k], ord, arch).val]),
                         rs[f].err)
            ELSE GoValue(AnyOf("map[string]interface {}",
                           [k \in DOMAIN m |-> toGoValueV2(m[k], ord, arch).val]), Nil)
    [] av.member = "N" -> NumberValue(av.Value, arch)
    [] av.member = "NS" -> GoValue(AnyOf("[]string", av.Value), Nil)
    [] av.member = "NULL" -> GoValue(NilAny, Nil)
    [] av.member = "S" -> GoValue(AnyOf("string", av.Value), Nil)
    [] av.member = "SS" -> GoValue(AnyOf("[]string", av.Value), Nil)
    [] OTHER -> GoValue(NilAny, Some("not supported"))

\* AsSpecial(v) for a destination of type t: (bool, interface{}, error)
Special(done, val, err) == [panic |-> FALSE, done |-> done, val |-> val, err |-> err]
\* AsSpecial that looks at the destination type before the set kinds
AsSpecial_TypeFirst(d, t) ==
  IF t = typeOfGoTime
  THEN IF d.kind = "Chan"
       THEN (IF d.value.t /= "time.Time"
             THEN [panic |-> TRUE, done |-> FALSE, val |-> NilAny, err |-> Nil]
             ELSE Special(TRUE, d.value, Nil))
       ELSE Special(FALSE, NilAny, Some("expected string field for time.Time"))
  ELSE IF d.kind = "Invalid" THEN Special(TRUE, NilAny, Some("unsupported type"))
  ELSE Special(FALSE, NilAny, Nil)

AsSpecial(d, t) ==
  IF d.kind = "Invalid" THEN Special(TRUE, NilAny, Some("unsupported type"))
  ELSE IF t = typeOfGoTime
       THEN IF d.kind = "Chan"
            THEN (IF d.value.t /= "time.Time"
                  THEN [panic |-> TRUE, done |-> FALSE, val |-> NilAny, err |-> Nil]
                  ELSE Special(TRUE, d.value, Nil))
            ELSE Special(FALSE, NilAny, Some("expected string field for time.Time"))
       ELSE Special(FALSE, NilAny, Nil)

(***************************************************************************)
(* encodeDocKeyFields.  A document is a function from the names of its     *)
(* fields to their Go values; GetField fails for a field the document does *)
(* not have, and driver.Encode fails for a value of a type it cannot       *)
(* encode.                                                                 *)
(***************************************************************************)
Fields == {"id", "ts", "x"}
FieldVals == {AnyOf("string", <<"a", "b", "c">>), AnyOf("int64", 7), AnyOf("chan int", <<>>)}
Docs == UNION {[S -> FieldVals] : S \in SUBSET Fields}

GetField(doc, name) ==
  IF name \in DOMAIN doc THEN [val |-> doc[name], err |-> Nil]
  ELSE [val |-> NilAny, err |-> Some([code |-> "NotFound", what |-> name])]

\* driver.Encode(v, e): the node the notifications leave in e, and the error
driverEncode(v) ==
  CASE v.t = "string" -> [codec |-> EncodeString(v.v), err |-> Nil]
    [] v.t = "int64" -> [codec |-> EncodeInt(v.v), err |-> Nil]
    [] OTHER -> [codec |-> ZeroCodec, err |-> Some([code |-> "InvalidArgument", what |-> v.t])]

\* func encodeValue(v interface{}) (*codec, error)
encodeValueFunc(v) ==
  LET r == driverEncode(v)
  IN IF ~IsNil(r.err) THEN [val |-> Nil, err |-> r.err]
     ELSE [val |-> Some(r.codec), err |-> Nil]

\* the closure set(fieldName) of encodeDocKeyFields, on the map m
setField(doc, m, fieldName) ==
  LET g == GetField(doc, fieldName)
      a == encodeValueFunc(g.val)
  IN IF ~IsNil(g.err) THEN [m |-> m, err |-> g.err]
     ELSE IF ~IsNil(a.err) THEN [m |-> m, err |-> a.err]
     ELSE [m |-> [k \in DOMAIN m \cup {fieldName} |->
                    IF k = fieldName THEN Get(a.val) ELSE m[k]],
           err |-> Nil]

\* the result of encodeDocKeyFields: the map (nil on error), the error and
\* the fields read with GetField, in order
Keyed(m, err, reads) == [m |-> m, err |-> err, reads |-> reads]
NoKeys == Keyed(Nil, Nil, <<>>)

\* encodeDocKeyFields that keeps the entries made before a failure
encodeDocKeyFields_PartialMap(doc, pkey, skey) ==
  LET p == setField(doc, <<>>, pkey)
      q == setField(doc, p.m, skey)
  IN IF ~IsNil(p.err) THEN Keyed(Some(p.m), p.err, <<pkey>>)
     ELSE IF skey /= ""
     THEN (IF ~IsNil(q.err) THEN Keyed(Some(q.m), q.err, <<pkey, skey>>)
           ELSE Keyed(Some(q.m), Nil, <<pkey, skey>>))
     ELSE Keyed(Some(p.m), Nil, <<pkey>>)

\* encodeDocKeyFields that encodes every field of the document
encodeDocKeyFields_AllFields(doc, pkey, skey) ==
  LET p == setField(doc, <<>>, pkey)
      q == setField(doc, p.m, skey)
      all == [k \in {f \in DOMAIN doc : IsNil(encodeValueFunc(doc[f]).err)} |->
                Get(encodeValueFunc(doc[k]).val)]
  IN IF ~IsNil(p.err) THEN Keyed(Nil, p.err, <<pkey>>)
     ELSE IF skey /= ""
     THEN (IF ~IsNil(q.err) THEN Keyed(Nil, q.err, <<pkey, skey>>)
           ELSE Keyed(Some(all), Nil, <<pkey, skey>>))
     ELSE Keyed(Some(all), Nil, <<pkey>>)

encodeDocKeyFields(doc, pkey, skey) ==
  LET p == setField(doc, <<>>, pkey)
      q == setField(doc, p.m, skey)
  IN IF ~IsNil(p.err) THEN Keyed(Nil, p.err, <<pkey>>)
     ELSE IF skey /= ""
     THEN (IF ~IsNil(q.err) THEN Keyed(Nil, q.err, <<pkey, skey>>)
           ELSE Keyed(Some(q.m), Nil, <<pkey, skey>>))
     ELSE Keyed(Some(p.m), Nil, <<pkey>>)

(***************************************************************************)
(* The state.                                                              *)
(*  e      the root node of an encode call (var e codec)                   *)
(*  encs   the listEncoder / mapEncoder values handed out so far; the      *)
(*         slice or map of encs[i] is shared with the node whose value is  *)
(*         the reference i, as the Go slice and map are                    *)
(*  steps  the number of values notified (Encode... calls)                  *)
(*  last   the last notification: its name, observer and argument          *)
(*  prev   the notification before the last one                            *)
(*  phase  "idle", "encode", "rendered", "received" or "decoded"           *)
(*  av1, av2   the wire values (rendered, or received from the table)      *)
(*  d1, d2     the results of newV1Decoder(av1) and newV2Decoder(av2)      *)
(*  kf     the last call of encodeDocKeyFields: its document, key names    *)
(*         and result                                                      *)
(*  sentinel   what the package variable nullValue points to               *)
(*  routines   the encode and decode calls of several goroutines, each on  *)
(*             a tree of its own: the position, the tree and the results   *)
(***************************************************************************)
VARIABLES e, encs, steps, last, prev, phase, av1, av2, d1, d2, kf, sentinel, routines

vars == <<e, encs, steps, last, prev, phase, av1, av2, d1, d2, kf, sentinel, routines>>

NoResult == [panic |-> FALSE, err |-> Nil, val |-> Nil]
Note(op, o, x) == [o |-> o, op |-> op, x |-> x]

\* the goroutines that call the codec at the same time, and a call not begun
Goroutines == {1, 2}
NoCall ==
  [op |-> "none", pc |-> "idle", n |-> 0, tree |-> ZeroCodec,
   av1 |-> NoResult, av2 |-> NoResult, d1 |-> NoResult, d2 |-> NoResult]

\* the values the document layer notifies
\* an integer that a float64 cannot hold, when int64 has one
BigInt == IF Pow2(MantBits) + 1 <= MaxInt64 THEN Pow2(MantBits) + 1 ELSE MaxInt64
IntVals == {0 - 7, 7, MinInt64, BigInt}
UintVals == {7, MaxUint64}
FloatVals == {14}
BytesVals == {Nil, Some(<<>>), Some(<<1, 2>>)}
TimeVals == {Time(5, 0, 0), Time(5, 50, 1)}
StringVals == {<<>>, <<"x">>, <<"0", "5", "Z">>}
ComplexVals == {Complex(48, 14), Complex(Pow2(WordBits) * FUnit, 0 - 28)}
\* the values offered to EncodeSpecial: timestamps and one other type
SpecialVals == {AnyOf(typeOfGoTime, t) : t \in TimeVals} \cup {AnyOf("url.URL", <<>>)}

listEncoder(s) == [typ |-> "list", s |-> s, m |-> <<>>, codec |-> ZeroCodec]
mapEncoder(m) == [typ |-> "map", s |-> <<>>, m |-> m, codec |-> ZeroCodec]

Observers == 0..Len(encs)
Node(o) == IF o = 0 THEN e ELSE encs[o].codec

\* the tree below the node c, every shared slice and map followed
RECURSIVE Resolve(_)
Resolve(c) ==
  IF c.kind = "Slice"
  THEN LET s == encs[c.value.v].s
       IN [kind |-> c.kind,
           value |-> AnyOf("[]*codec", [i \in 1..Len(s) |->
                        IF IsNil(s[i]) THEN Nil ELSE Some(Resolve(Get(s[i])))])]
  ELSE IF c.kind = "Map"
  THEN LET m == encs[c.value.v].m
       IN [kind |-> c.kind,
           value |-> AnyOf("map[string]*codec", [k \in DOMAIN m |-> Resolve(m[k])])]
  ELSE c

Init ==
  /\ e = ZeroCodec
  /\ encs = <<>>
  /\ steps = 0
  /\ last = Note("none", 0, <<>>)
  /\ prev = Note("none", 0, <<>>)
  /\ phase = "idle"
  /\ av1 = NoResult
  /\ av2 = NoResult
  /\ d1 = NoResult
  /\ d2 = NoResult
  /\ kf = [doc |-> <<>>, pkey |-> "", skey |-> "", res |-> NoKeys]
  /\ sentinel = nullValue
  /\ routines = [t \in Goroutines |-> NoCall]

Encoding == phase \in {"idle", "encode"}

\* the observer o is left holding the node c by the notification n
Notify(o, c, n) ==
  /\ Encoding
  /\ IF o = 0 THEN e' = c /\ encs' = encs
     ELSE e' = e /\ encs' = [encs EXCEPT ![o].codec = c]
  /\ steps' = steps + 1
  /\ last' = n
  /\ prev' = last
  /\ phase' = "encode"
  /\ UNCHANGED <<routines, sentinel, kf, av1, av2, d1, d2>>

CallEncodeNil(o) == Notify(o, EncodeNil, Note("EncodeNil", o, <<>>))
CallEncodeBool(o, x) == Notify(o, EncodeBool(x), Note("EncodeBool", o, x))
CallEncodeInt(o, x) == Notify(o, EncodeInt(x), Note("EncodeInt", o, x))
CallEncodeUint(o, x) == Notify(o, EncodeUint(x), Note("EncodeUint", o, x))
CallEncodeBytes(o, x) == Notify(o, EncodeBytes(x), Note("EncodeBytes", o, x))
CallEncodeFloat(o, x) == Notify(o, EncodeFloat(x), Note("EncodeFloat", o, x))
CallEncodeString(o, x) == Notify(o, EncodeString(x), Note("EncodeString", o, x))
CallEncodeComplex(o, x) == Notify(o, EncodeComplex(x), Note("EncodeComplex", o, x))
CallEncodeSpecial(o, v) ==
  Notify(o, EncodeSpecial(Node(o), v).codec, Note("EncodeSpecial", o, v))

\* EncodeList(n): the node refers to a new slice of n nil slots, shared with
\* the listEncoder returned
CallEncodeList(o, n) ==
  /\ Encoding
  /\ LET ref == Len(encs) + 1
         c   == encodeValue(AnyOf("[]*codec", ref), "Slice")
         le  == listEncoder([i \in 1..n |-> Nil])
     IN IF o = 0 THEN e' = c /\ encs' = Append(encs, le)
        ELSE e' = e /\ encs' = Append([encs EXCEPT ![o].codec = c], le)
  /\ steps' = steps + 1
  /\ last' = Note("EncodeList", o, n)
  /\ prev' = last
  /\ phase' = "encode"
  /\ UNCHANGED <<routines, sentinel, kf, av1, av2, d1, d2>>

\* EncodeMap(n): n is only the capacity of the new map
CallEncodeMap(o, n) ==
  /\ Encoding
  /\ LET ref == Len(encs) + 1
         c   == encodeValue(AnyOf("map[string]*codec", ref), "Map")
         me  == mapEncoder(<<>>)
     IN IF o = 0 THEN e' = c /\ encs' = Append(encs, me)
        ELSE e' = e /\ encs' = Append([encs EXCEPT ![o].codec = c], me)
  /\ steps' = steps + 1
  /\ last' = Note("EncodeMap", o, n)
  /\ prev' = last
  /\ phase' = "encode"
  /\ UNCHANGED <<routines, sentinel, kf, av1, av2, d1, d2>>

\* ListIndex that points slot i to the embedded node itself, not to a copy:
\* the slot shows the node after its reset
ListIndex_Aliased(o, i) ==
  /\ Encoding
  /\ o > 0 /\ encs[o].typ = "list" /\ i \in 1..Len(encs[o].s)
  /\ encs' = [encs EXCEPT ![o].s[i] = Some(ZeroCodec), ![o].codec = ZeroCodec]
  /\ steps' = steps
  /\ last' = Note("ListIndex", o, i)
  /\ prev' = last
  /\ phase' = "encode"
  /\ UNCHANGED <<routines, sentinel, kf, e, av1, av2, d1, d2>>

\* listEncoder.ListIndex(i): slot i (counted from 1 here) points to a copy of
\* the embedded node, which is reset
ListIndex(o, i) ==
  /\ Encoding
  /\ o > 0 /\ encs[o].typ = "list" /\ i \in 1..Len(encs[o].s)
  /\ encs' = [encs EXCEPT ![o].s[i] = Some(encs[o].codec), ![o].codec = ZeroCodec]
  /\ steps' = steps
  /\ last' = Note("ListIndex", o, i)
  /\ prev' = last
  /\ phase' = "encode"
  /\ UNCHANGED <<routines, sentinel, kf, e, av1, av2, d1, d2>>

\* MapKey that points the entry to the embedded node itself, not to a copy:
\* the entry shows the node after its reset
MapKey_Aliased(o, k) ==
  /\ Encoding
  /\ o > 0 /\ encs[o].typ = "map"
  /\ encs' = [encs EXCEPT ![o].m = [x \in DOMAIN @ \cup {k} |->
                                      IF x = k THEN ZeroCodec ELSE @[x]],
                          ![o].codec = ZeroCodec]
  /\ steps' = steps
  /\ last' = Note("MapKey", o, k)
  /\ prev' = last
  /\ phase' = "encode"
  /\ UNCHANGED <<routines, sentinel, kf, e, av1, av2, d1, d2>>

\* mapEncoder.MapKey(k)
MapKey(o, k) ==
  /\ Encoding
  /\ o > 0 /\ encs[o].typ = "map"
  /\ encs' = [encs EXCEPT ![o].m = [x \in DOMAIN @ \cup {k} |->
                                      IF x = k THEN encs[o].codec ELSE @[x]],
                          ![o].codec = ZeroCodec]
  /\ steps' = steps
  /\ last' = Note("MapKey", o, k)
  /\ prev' = last
  /\ phase' = "encode"
  /\ UNCHANGED <<routines, sentinel, kf, e, av1, av2, d1, d2>>

\* the end of an encode call: e.asV1AttributeValue() and e.asV2AttributeValue()
Render ==
  /\ phase \in {"idle", "encode"}
  /\ av1' \in {asV1AttributeValue(Resolve(e), o) : o \in KeyOrders}
  /\ av2' \in {asV2AttributeValue(Resolve(e), o) : o \in KeyOrders}
  /\ phase' = "rendered"
  /\ UNCHANGED <<routines, sentinel, kf, e, encs, steps, last, prev, d1, d2>>

(***************************************************************************)
(* The wire values a table can return, each in its V1 and its V2 form.     *)
(***************************************************************************)
Pair(a, b) == [v1 |-> a, v2 |-> b]

NumberTexts ==
  {<<"7">>, <<"-", "7">>, <<"3", ".", "5">>, <<"7", "x">>, <<"7", ".", "0", "1">>,
   <<"0", "x", "7", "p", "0">>, <<>>,
   FormatInt(MaxInt64), FormatUint(MaxInt64 + 1), NatText(MaxUint64 + 1)}
WireTexts == {<<>>, <<"x">>} \cup {TimeFormat(t) : t \in TimeVals}
WireBytes == {Some(<<>>), Some(<<1, 2>>)}
SetTexts == {Some(<<<<"f">>, <<"g">>>>)}

NullPair == Pair(nullValue, Member("NULL", TRUE))
SetPairs ==
  {Pair(SetSS(x), Member("SS", x)) : x \in SetTexts}
  \cup {Pair(SetNS(Some(<<t>>)), Member("NS", Some(<<t>>))) : t \in NumberTexts}
  \cup {Pair(SetBS(Some(<<Get(b)>>)), Member("BS", Some(<<Get(b)>>))) : b \in WireBytes}
\* a V1 value with no field set; a nil V2 value and a V2 member of unknown type
NoKindPairs == {Pair(V1Zero, V2Nil), Pair(V1Zero, Member("UnknownUnionMember", Nil))}

LeafPairs ==
  {NullPair}
  \cup {Pair(SetBOOL(b), Member("BOOL", b)) : b \in BOOLEAN}
  \cup {Pair(SetN(t), Member("N", t)) : t \in NumberTexts}
  \cup {Pair(SetS(t), Member("S", t)) : t \in WireTexts}
  \cup {Pair(SetB(b), Member("B", b)) : b \in WireBytes}
  \cup SetPairs
  \cup NoKindPairs

\* the elements of the wire lists of two elements
TwoPairs ==
  {Pair(SetN(t), Member("N", t)) : t \in {<<"7">>, <<"3", ".", "5">>}}
  \cup {Pair(SetBOOL(TRUE), Member("BOOL", TRUE)), Pair(SetS(<<"x">>), Member("S", <<"x">>))}

ListPairs ==
  {Pair(SetL(Some(<<>>)), Member("L", Some(<<>>)))}
  \cup {Pair(SetL(Some(<<p.v1>>)), Member("L", Some(<<p.v2>>))) : p \in LeafPairs}
  \cup {Pair(SetL(Some(<<p.v1, q.v1>>)), Member("L", Some(<<p.v2, q.v2>>))) :
          p \in TwoPairs, q \in TwoPairs}

MapPairs ==
  {Pair(SetM(Some(<<>>)), Member("M", Some(<<>>)))}
  \cup {Pair(SetM(Some([k \in {"a"} |-> p.v1])), Member("M", Some([k \in {"a"} |-> p.v2]))) :
          p \in LeafPairs}

\* a wire number in a list in a map
DeepPairs ==
  {Pair(SetM(Some([k \in {"a"} |-> SetL(Some(<<SetN(t)>>))])),
        Member("M", Some([k \in {"a"} |-> Member("L", Some(<<Member("N", t)>>))]))) :
     t \in NumberTexts}

\* an item arrives from the table
Receive(p) ==
  /\ phase = "idle"
  /\ av1' = Ok(p.v1)
  /\ av2' = Ok(p.v2)
  /\ last' = Note("Receive", 0, <<>>)
  /\ phase' = "received"
  /\ UNCHANGED <<routines, sentinel, kf, e, encs, steps, prev, d1, d2>>

\* a call of encodeDocKeyFields; pkey is never empty
CallEncodeDocKeyFields(doc, pkey, skey) ==
  /\ phase = "idle"
  /\ kf' = [doc |-> doc, pkey |-> pkey, skey |-> skey,
            res |-> encodeDocKeyFields(doc, pkey, skey)]
  /\ last' = Note("encodeDocKeyFields", 0, <<>>)
  /\ phase' = "projected"
  /\ UNCHANGED <<routines, sentinel, e, encs, steps, prev, av1, av2, d1, d2>>

\* a decoding that reads a root wire value with no kind as a null
Decode_NoKindAsNull ==
  /\ phase \in {"rendered", "received"}
  /\ Succeeded(av1) /\ Succeeded(av2)
  /\ \E arch \in Archs :
       /\ d1' \in {IF Get(av1.val) = V1Zero THEN Ok(newDecoder(NilAny, "Interface"))
                   ELSE newV1Decoder(Get(av1.val), o, arch) : o \in KeyOrders}
       /\ d2' \in {IF Get(av2.val).member \in {"nil", "UnknownUnionMember"}
                   THEN Ok(newDecoder(NilAny, "Interface"))
                   ELSE newV2Decoder(Get(av2.val), o, arch) : o \in KeyOrders}
  /\ phase' = "decoded"
  /\ UNCHANGED <<routines, sentinel, kf, e, encs, steps, last, prev, av1, av2>>

\* newV1Decoder(av1) and newV2Decoder(av2)
Decode ==
  /\ phase \in {"rendered", "received"}
  /\ Succeeded(av1) /\ Succeeded(av2)
  /\ \E arch \in Archs :
       /\ d1' \in {newV1Decoder(Get(av1.val), o, arch) : o \in KeyOrders}
       /\ d2' \in {newV2Decoder(Get(av2.val), o, arch) : o \in KeyOrders}
  /\ phase' = "decoded"
  /\ UNCHANGED <<routines, sentinel, kf, e, encs, steps, last, prev, av1, av2>>

\* the wire values handed to the decoders
WirePairs == LeafPairs \cup ListPairs \cup MapPairs \cup DeepPairs

\* the lengths of the lists notified with scalars of every kind around them
SlotCounts == {0, 1}

\* the notifications of values of every kind
Notifications ==
  \/ \E o \in Observers : CallEncodeNil(o)
  \/ \E o \in Observers, x \in BOOLEAN : CallEncodeBool(o, x)
  \/ \E o \in Observers, x \in IntVals : CallEncodeInt(o, x)
  \/ \E o \in Observers, x \in UintVals : CallEncodeUint(o, x)
  \/ \E o \in Observers, x \in BytesVals : CallEncodeBytes(o, x)
  \/ \E o \in Observers, x \in FloatVals : CallEncodeFloat(o, x)
  \/ \E o \in Observers, x \in StringVals : CallEncodeString(o, x)
  \/ \E o \in Observers, x \in ComplexVals : CallEncodeComplex(o, x)
  \/ \E o \in Observers, v \in SpecialVals : CallEncodeSpecial(o, v)
  \/ \E o \in Observers, n \in SlotCounts : CallEncodeList(o, n)
  \/ \E o \in Observers : CallEncodeMap(o, 1)

\* the calls that place the embedded node of a list or map encoder
Placements ==
  \/ \E o \in Observers, i \in 1..MaxLen : ListIndex(o, i)
  \/ \E o \in Observers, k \in Keys : MapKey(o, k)

Next ==
  \/ steps < MaxSteps /\ Encoding /\ Notifications
  \/ Encoding /\ Placements
  \/ Render
  \/ phase = "idle" /\ \E p \in WirePairs : Receive(p)
  \/ Decode
  \/ phase = "idle" /\ \E doc \in Docs, pkey \in {"id", "ts"}, skey \in {"", "id", "ts"} :
                        CallEncodeDocKeyFields(doc, pkey, skey)

Spec == Init /\ [][Next]_vars

\* encode calls for a list or a map of integers, lists and maps, made as
\* the document layer makes them: the root observer is notified once, of the
\* list or map; a nested observer is notified of one value at a time, while
\* it has room; the value is placed once it is whole, a list in its next
\* empty slot and a map under a key it does not hold yet.  The observer
\* called is the one called last, the one just handed out, or the one that
\* handed out the one called last.
TreeVals == {0 - 7, 7}
Handed == IF last.op \in {"EncodeList", "EncodeMap"} THEN {Len(encs)} ELSE {}
Parents(o) == {p \in Observers : Node(p).kind \in {"Slice", "Map"} /\ Node(p).value.v = o}
Near == ({last.o} \cup Handed \cup Parents(last.o)) \ {0}

\* the slots of the list encoder o that hold no node yet
EmptySlots(o) == {i \in 1..Len(encs[o].s) : IsNil(encs[o].s[i])}
\* the observer o was notified of no value since its last placement
Fresh(o) == encs[o].codec.kind = "Invalid"
\* the list or map encoder o has room for one more value
Open(o) == IF encs[o].typ = "list" THEN EmptySlots(o) /= {}
           ELSE DOMAIN encs[o].m /= Keys
\* the list or map encoder r needs no further call
Closed(r) == Fresh(r) /\ (encs[r].typ = "list" => EmptySlots(r) = {})
\* the value notified to the observer o is whole
Whole(o) ==
  LET c == encs[o].codec
  IN c.kind = "Int64" \/ (c.kind \in {"Slice", "Map"} /\ Closed(c.value.v))

TreeNotifications ==
  \/ steps = 0 /\ \E n \in 0..MaxLen : CallEncodeList(0, n)
  \/ steps = 0 /\ CallEncodeMap(0, MaxLen)
  \/ \E o \in Near, x \in TreeVals : Fresh(o) /\ Open(o) /\ CallEncodeInt(o, x)
  \/ \E o \in Near, n \in 0..MaxLen : Fresh(o) /\ Open(o) /\ CallEncodeList(o, n)
  \/ \E o \in Near : Fresh(o) /\ Open(o) /\ CallEncodeMap(o, MaxLen)

TreePlacements ==
  \/ \E o \in Near, i \in 1..MaxLen :
       /\ encs[o].typ = "list" /\ Whole(o)
       /\ i \in EmptySlots(o) /\ \A j \in EmptySlots(o) : i <= j
       /\ ListIndex(o, i)
  \/ \E o \in Near, k \in Keys :
       /\ encs[o].typ = "map" /\ Whole(o)
       /\ k \notin DOMAIN encs[o].m
       /\ MapKey(o, k)

NextTree ==
  \/ steps < MaxNotes /\ TreeNotifications
  \/ TreePlacements
  \/ Render
  \/ Decode

SpecTree == Init /\ [][NextTree]_vars

(***************************************************************************)
(* Calls made at the same time.  Each goroutine of Goroutines makes an     *)
(* encode call (notifications on a codec of its own, then both renderers)  *)
(* or a decode call (a wire value of its own, then both decoders); the     *)
(* steps of the calls interleave.  The only thing the calls share is the   *)
(* package variable nullValue, whose pointer asV1AttributeValue returns    *)
(* for a null node.                                                        *)
(***************************************************************************)
\* the values a goroutine notifies, and the wire values it receives
GoNodes ==
  {EncodeNil, EncodeBool(TRUE), EncodeInt(7), EncodeString(<<"x">>), EncodeString(<<>>)}
GoPairs == TwoPairs \cup {NullPair}

\* one Encode... call of goroutine t on its codec
GoNotify(t, c) ==
  /\ routines[t].pc \in {"idle", "noted"}
  /\ routines[t].n < MaxSteps
  /\ routines' = [routines EXCEPT ![t].op = "encode", ![t].pc = "noted",
                                  ![t].n = @ + 1, ![t].tree = c]
  /\ UNCHANGED <<sentinel, e, encs, steps, last, prev, phase, av1, av2, d1, d2, kf>>

\* asV1AttributeValue on a scalar node: a null node yields the pointer
\* nullValue, that is what the package variable holds when it is read
asV1AttributeValueShared(c, s) ==
  IF c.kind = "Interface" THEN Ok(s) ELSE asV1AttributeValue(c, <<"a", "b">>)

\* a renderer step that stores into the package variable
GoRender_WritesNull(t) ==
  /\ routines[t].pc = "noted"
  /\ routines' = [routines EXCEPT
                    ![t].pc = "rendered",
                    ![t].av1 = asV1AttributeValueShared(routines[t].tree, sentinel),
                    ![t].av2 = asV2AttributeValue(routines[t].tree, <<"a", "b">>)]
  /\ sentinel' = SetBOOL(FALSE)
  /\ UNCHANGED <<e, encs, steps, last, prev, phase, av1, av2, d1, d2, kf>>

\* goroutine t renders its codec in both wire formats
GoRender(t) ==
  /\ routines[t].pc = "noted"
  /\ routines' = [routines EXCEPT
                    ![t].pc = "rendered",
                    ![t].av1 = asV1AttributeValueShared(routines[t].tree, sentinel),
                    ![t].av2 = asV2AttributeValue(routines[t].tree, <<"a", "b">>)]
  /\ UNCHANGED <<sentinel, e, encs, steps, last, prev, phase, av1, av2, d1, d2, kf>>

\* goroutine t is handed a wire value
GoReceive(t, p) ==
  /\ routines[t].pc = "idle"
  /\ routines' = [routines EXCEPT ![t].op = "decode", ![t].pc = "received",
                                  ![t].av1 = Ok(p.v1), ![t].av2 = Ok(p.v2)]
  /\ UNCHANGED <<sentinel, e, encs, steps, last, prev, phase, av1, av2, d1, d2, kf>>

\* goroutine t decodes its wire values
GoDecode(t) ==
  /\ routines[t].pc \in {"rendered", "received"}
  /\ Succeeded(routines[t].av1) /\ Succeeded(routines[t].av2)
  /\ \E arch \in Archs :
       routines' = [routines EXCEPT
                      ![t].pc = "decoded",
                      ![t].d1 = newV1Decoder(Get(routines[t].av1.val), <<"a", "b">>, arch),
                      ![t].d2 = newV2Decoder(Get(routines[t].av2.val), <<"a", "b">>, arch)]
  /\ UNCHANGED <<sentinel, e, encs, steps, last, prev, phase, av1, av2, d1, d2, kf>>

NextPar ==
  \/ \E t \in Goroutines, c \in GoNodes : GoNotify(t, c)
  \/ \E t \in Goroutines : GoRender(t)
  \/ \E t \in Goroutines, p \in GoPairs : GoReceive(t, p)
  \/ \E t \in Goroutines : GoDecode(t)

SpecPar == Init /\ [][NextPar]_vars

(***************************************************************************)
(* Properties.                                                             *)
(***************************************************************************)
\* the wire values were rendered from the tree of e; they were decoded
Rendered == phase \in {"rendered", "decoded"} /\ last.op /= "Receive"
Decoded == phase = "decoded"
\* the last notification was op, made on the root observer
RootNote(op) == last.op = op /\ last.o = 0

\* the root of the V1 / V2 wire value decoded is a set kind
IsSetV1(av) == IsNil(av.NULL) /\ IsNil(av.BOOL) /\ IsNil(av.N) /\ IsNil(av.B)
               /\ IsNil(av.S) /\ IsNil(av.L) /\ IsNil(av.M)
               /\ (~IsNil(av.SS) \/ ~IsNil(av.NS) \/ ~IsNil(av.BS))
IsSetV2(av) == av.member \in {"SS", "NS", "BS"}

\* the destination types a caller decodes into
DestTypes == {typeOfGoTime, "string", "bool", "int64", "[]string", "interface {}"}

\* C1: a bool, a non-empty byte sequence and a non-empty string notified to
\* the root observer, rendered, decoded and read with AsBool / AsBytes /
\* AsString comes back as (v, true), in both wire variants.
C1_ScalarRoundTrip ==
  (Rendered /\ Decoded) =>
    /\ RootNote("EncodeBool") =>
         /\ Succeeded(d1) /\ AsBool(Get(d1.val)) = Got(last.x, TRUE)
         /\ Succeeded(d2) /\ AsBool(Get(d2.val)) = Got(last.x, TRUE)
    /\ (RootNote("EncodeBytes") /\ ~IsNil(last.x) /\ Len(Get(last.x)) > 0) =>
         /\ Succeeded(d1) /\ AsBytes(Get(d1.val)) = Got(last.x, TRUE)
         /\ Succeeded(d2) /\ AsBytes(Get(d2.val)) = Got(last.x, TRUE)
    /\ (RootNote("EncodeString") /\ Len(last.x) > 0) =>
         /\ Succeeded(d1) /\ AsString(Get(d1.val)) = Got(last.x, TRUE)
         /\ Succeeded(d2) /\ AsString(Get(d2.val)) = Got(last.x, TRUE)

\* C2: a tree that renders in both variants decodes to the same tree from
\* its V1 and from its V2 rendering.
C2_CrossVariantDecode ==
  (Rendered /\ Decoded) =>
    /\ Succeeded(d1) /\ Succeeded(d2)
    /\ Get(d1.val) = Get(d2.val)

\* the wire kinds set in a V1 value
V1Kinds(av) ==
  {k \in {"NULL", "BOOL", "N", "B", "S", "L", "M", "SS", "NS", "BS"} : ~IsNil(av[k])}

\* the V1 value a and the V2 value b denote the same wire value
RECURSIVE WireEquiv(_, _)
WireEquiv(a, b) ==
  /\ V1Kinds(a) = {b.member}
  /\ CASE b.member = "NULL" -> TRUE
       [] b.member = "BOOL" -> Get(a.BOOL) = b.Value
       [] b.member = "N" -> Get(a.N) = b.Value
       [] b.member = "S" -> Get(a.S) = b.Value
       [] b.member = "B" -> a.B = b.Value
       [] b.member = "L" ->
            /\ ~IsNil(b.Value)
            /\ Len(Get(a.L)) = Len(Get(b.Value))
            /\ \A i \in 1..Len(Get(a.L)) : WireEquiv(Get(a.L)[i], Get(b.Value)[i])
       [] b.member = "M" ->
            /\ ~IsNil(b.Value)
            /\ DOMAIN Get(a.M) = DOMAIN Get(b.Value)
            /\ \A k \in DOMAIN Get(a.M) : WireEquiv(Get(a.M)[k], Get(b.Value)[k])
       [] OTHER -> FALSE

\* C3: the two renderings of a tree both fail or both succeed, and when they
\* succeed they are the same wire value node by node.
C3_RenderingsEquivalent ==
  Rendered =>
    /\ Failed(av1) <=> Failed(av2)
    /\ Succeeded(av1) => WireEquiv(Get(av1.val), Get(av2.val))

\* every node of kind Interface (null) of the tree t is the wire null at the
\* same place of the V1 value a and of the V2 value b
RECURSIVE NullsAreWireNull(_, _, _)
NullsAreWireNull(t, a, b) ==
  CASE t.kind = "Interface" -> a = nullValue /\ b.member = "NULL"
    [] t.kind = "Slice" ->
         \A i \in 1..Len(t.value.v) :
           NullsAreWireNull(Get(t.value.v[i]), Get(a.L)[i], Get(b.Value)[i])
    [] t.kind = "Map" ->
         \A k \in DOMAIN t.value.v :
           NullsAreWireNull(t.value.v[k], Get(a.M)[k], Get(b.Value)[k])
    [] OTHER -> TRUE

NullNode == [kind |-> "Interface", value |-> NilAny]

\* C4: EncodeString("") leaves an observer as EncodeNil does, with a null
\* node without payload; committed to a list slot or a map entry the node is
\* still that null node; and every null node, at the root or nested, renders
\* to nullValue (V1) and to a NULL member (V2).
C4_EmptyStringIsNull ==
  /\ (phase = "encode" /\ last.op = "EncodeString" /\ Len(last.x) = 0) =>
       Node(last.o) = EncodeNil /\ Node(last.o) = NullNode
  /\ (phase = "encode" /\ prev.op = "EncodeString" /\ Len(prev.x) = 0
      /\ last.op = "ListIndex" /\ last.o = prev.o) =>
       encs[last.o].s[last.x] = Some(NullNode)
  /\ (phase = "encode" /\ prev.op = "EncodeString" /\ Len(prev.x) = 0
      /\ last.op = "MapKey" /\ last.o = prev.o) =>
       encs[last.o].m[last.x] = NullNode
  /\ (Rendered /\ Succeeded(av1) /\ Succeeded(av2)) =>
       NullsAreWireNull(Resolve(e), Get(av1.val), Get(av2.val))

\* an empty string was committed to slot 1 of a list at the root, and the
\* list was rendered
C4_Witness ==
  /\ phase = "rendered"
  /\ prev.op = "EncodeString" /\ prev.o = 1 /\ Len(prev.x) = 0
  /\ last.op = "ListIndex" /\ last.o = 1 /\ last.x = 1
  /\ e.kind = "Slice" /\ e.value.v = 1
  /\ Get(Get(av1.val).L)[1] = nullValue
  /\ Get(Get(av2.val).Value)[1].member = "NULL"

\* C5: the node decoded from a wire null reads as ("", true) through AsString.
C5_NullReadsAsEmptyString ==
  Decoded =>
    /\ (Get(av1.val) = nullValue) =>
         Succeeded(d1) /\ AsString(Get(d1.val)) = Got(<<>>, TRUE)
    /\ (Get(av2.val).member = "NULL") =>
         Succeeded(d2) /\ AsString(Get(d2.val)) = Got(<<>>, TRUE)

\* no node of kind String of the tree t holds an empty text
RECURSIVE NoEmptyString(_)
NoEmptyString(t) ==
  CASE t.kind = "String" -> t.value.t = "string" /\ Len(t.value.v) > 0
    [] t.kind = "Slice" ->
         \A i \in 1..Len(t.value.v) :
           IsNil(t.value.v[i]) \/ NoEmptyString(Get(t.value.v[i]))
    [] t.kind = "Map" -> \A k \in DOMAIN t.value.v : NoEmptyString(t.value.v[k])
    [] OTHER -> TRUE

\* the V1 / V2 wire value holds a string whose text is empty
RECURSIVE HasEmptyS1(_)
HasEmptyS1(av) ==
  \/ ~IsNil(av.S) /\ Len(Get(av.S)) = 0
  \/ ~IsNil(av.L) /\ \E i \in 1..Len(Get(av.L)) : HasEmptyS1(Get(av.L)[i])
  \/ ~IsNil(av.M) /\ \E k \in DOMAIN Get(av.M) : HasEmptyS1(Get(av.M)[k])

RECURSIVE HasEmptyS2(_)
HasEmptyS2(av) ==
  \/ av.member = "S" /\ Len(av.Value) = 0
  \/ av.member = "L" /\ \E i \in 1..Len(Get(av.Value)) : HasEmptyS2(Get(av.Value)[i])
  \/ av.member = "M" /\ \E k \in DOMAIN Get(av.Value) : HasEmptyS2(Get(av.Value)[k])

\* C6 as stated: no String node with an empty text in the tree the observer
\* builds nor in a tree decoded from any wire value.
C6_NoEmptyStringNode ==
  /\ NoEmptyString(Resolve(e))
  /\ (Decoded /\ Succeeded(d1)) => NoEmptyString(Get(d1.val))
  /\ (Decoded /\ Succeeded(d2)) => NoEmptyString(Get(d2.val))

\* C6 as amended: no String node with an empty text in the tree the observer
\* builds, nor in a tree decoded from a wire value that holds no string with
\* an empty text.
C6_NoEmptyStringUnlessOnWire ==
  /\ NoEmptyString(Resolve(e))
  /\ (Decoded /\ Succeeded(d1) /\ ~HasEmptyS1(Get(av1.val))) => NoEmptyString(Get(d1.val))
  /\ (Decoded /\ Succeeded(d2) /\ ~HasEmptyS2(Get(av2.val))) => NoEmptyString(Get(d2.val))

\* a string was notified, rendered and decoded as a String node
C6_Witness ==
  /\ Rendered /\ Decoded
  /\ RootNote("EncodeString") /\ last.x = <<"x">>
  /\ e.kind = "String"
  /\ Succeeded(d1) /\ Get(d1.val).kind = "String"
  /\ Succeeded(d2) /\ Get(d2.val).kind = "String"

\* the value v was offered to EncodeSpecial on the root observer, which then
\* was rendered and decoded
SpecialDecoded == Rendered /\ Decoded /\ RootNote("EncodeSpecial")

\* AsSpecial accepted the node with a time of the instant of t and no error
AcceptedAs(r, t) ==
  /\ ~r.panic /\ r.done /\ IsNil(r.err)
  /\ r.val.t = typeOfGoTime /\ SameInstant(r.val.v, t)

\* C7: a timestamp encoded through EncodeSpecial, rendered and decoded is
\* accepted by AsSpecial for a timestamp destination, with the same instant,
\* in both wire variants.
C7_TimestampRoundTrip ==
  (SpecialDecoded /\ last.x.t = typeOfGoTime) =>
    /\ Succeeded(d1) /\ AcceptedAs(AsSpecial(Get(d1.val), typeOfGoTime), last.x.v)
    /\ Succeeded(d2) /\ AcceptedAs(AsSpecial(Get(d2.val), typeOfGoTime), last.x.v)

\* the node d read for a plain string destination gives the text s
ReadsAsString(d, s) ==
  /\ AsSpecial(d, "string") = Special(FALSE, NilAny, Nil)
  /\ AsString(d) = Got(s, TRUE)

\* C8: the node decoded from the wire encoding of a timestamp, and from any
\* wire string, read for a plain string destination gives the text.
C8_TimestampAsString ==
  /\ (SpecialDecoded /\ last.x.t = typeOfGoTime) =>
       /\ Succeeded(d1) /\ ReadsAsString(Get(d1.val), TimeFormat(last.x.v))
       /\ Succeeded(d2) /\ ReadsAsString(Get(d2.val), TimeFormat(last.x.v))
  /\ (Decoded /\ last.op = "Receive" /\ ~IsNil(Get(av1.val).S)) =>
       Succeeded(d1) /\ ReadsAsString(Get(d1.val), Get(Get(av1.val).S))
  /\ (Decoded /\ last.op = "Receive" /\ Get(av2.val).member = "S") =>
       Succeeded(d2) /\ ReadsAsString(Get(d2.val), Get(av2.val).Value)

\* AsSpecial rejects the node d for every destination type
RejectedAsSet(d) ==
  \A t \in DestTypes :
    LET r == AsSpecial(d, t)
    IN ~r.panic /\ r.done /\ ~IsNil(r.err) /\ r.val = NilAny

\* every set of the V1 value av is rejected at its node of the tree d
RECURSIVE SetsRejectedV1(_, _)
SetsRejectedV1(av, d) ==
  IF IsSetV1(av) THEN d.kind = "Invalid" /\ RejectedAsSet(d)
  ELSE IF d.kind = "Slice"
  THEN \A i \in 1..Len(d.value.v) : SetsRejectedV1(Get(av.L)[i], Get(d.value.v[i]))
  ELSE IF d.kind = "Map"
  THEN \A k \in DOMAIN d.value.v : SetsRejectedV1(Get(av.M)[k], d.value.v[k])
  ELSE TRUE

RECURSIVE SetsRejectedV2(_, _)
SetsRejectedV2(av, d) ==
  IF IsSetV2(av) THEN d.kind = "Invalid" /\ RejectedAsSet(d)
  ELSE IF d.kind = "Slice"
  THEN \A i \in 1..Len(d.value.v) : SetsRejectedV2(Get(av.Value)[i], Get(d.value.v[i]))
  ELSE IF d.kind = "Map"
  THEN \A k \in DOMAIN d.value.v : SetsRejectedV2(Get(av.Value)[k], d.value.v[k])
  ELSE TRUE

\* C9: AsSpecial on the node decoded from a wire string-set, number-set or
\* binary-set accepts with the unsupported-type error and no value, for every
\* destination type, in both wire variants.
C9_SetsRejected ==
  Decoded =>
    /\ IsSetV1(Get(av1.val)) => Succeeded(d1)
    /\ IsSetV2(Get(av2.val)) => Succeeded(d2)
    /\ Succeeded(d1) => SetsRejectedV1(Get(av1.val), Get(d1.val))
    /\ Succeeded(d2) => SetsRejectedV2(Get(av2.val), Get(d2.val))

\* a wire set was decoded in both variants and AsSpecial rejects it for a
\* timestamp destination
C9_Witness ==
  /\ Decoded /\ last.op = "Receive"
  /\ IsSetV1(Get(av1.val)) /\ IsSetV2(Get(av2.val))
  /\ Succeeded(d1) /\ Succeeded(d2)
  /\ AsSpecial(Get(d1.val), typeOfGoTime).done /\ ~IsNil(AsSpecial(Get(d1.val), typeOfGoTime).err)
  /\ AsSpecial(Get(d2.val), typeOfGoTime).done /\ ~IsNil(AsSpecial(Get(d2.val), typeOfGoTime).err)

\* every read accessor fails on the node d
AllReadsFail(d) ==
  /\ ~AsBool(d).ok /\ ~AsString(d).ok /\ ~AsInt(d).ok /\ ~AsUint(d).ok
  /\ ~AsFloat(d).ok /\ ~AsComplex(d).ok /\ ~AsBytes(d).ok
  /\ ~ListLen(d).ok /\ ~MapLen(d).ok
  /\ ~AsNull(d)
  /\ ~IsNil(AsInterface(d).err)

IsNumber(d, x) ==
  \/ d.kind = "Int64" /\ d.value.t = "int64" /\ d.value.v = x
  \/ d.kind = "Uint64" /\ d.value.t = "uint64" /\ d.value.v = x
  \/ d.kind = "Float64" /\ d.value.t = "float64" /\ d.value.v = x * FUnit

\* C11: an int64 or uint64 notified to the root observer, rendered and
\* decoded, is a numeric node whose value is exactly the integer notified, in
\* both wire variants.
C11_IntegerRoundTrip ==
  (Rendered /\ Decoded /\ (RootNote("EncodeInt") \/ RootNote("EncodeUint"))) =>
    /\ Succeeded(d1) /\ IsNumber(Get(d1.val), last.x)
    /\ Succeeded(d2) /\ IsNumber(Get(d2.val), last.x)

\* the number a decimal text [+-]digits[.digits] denotes, as num / den
TextNumber(s) ==
  LET neg  == s[1] = "-"
      body == IF s[1] = "-" \/ s[1] = "+" THEN Tail(s) ELSE s
      ni   == DigitRun(body, 1)
      nf   == IF Len(body) > ni THEN Len(body) - ni - 1 ELSE 0
      n    == DigitsVal(SubSeq(body, 1, ni)) * Pow10(nf)
              + DigitsVal(SubSeq(body, ni + 2, ni + 1 + nf))
  IN [num |-> IF neg THEN 0 - n ELSE n, den |-> Pow10(nf)]

\* the narrowest kind that holds the number the text s denotes
NarrowestKind(s) ==
  LET x == TextNumber(s)
      v == x.num \div x.den
  IN IF x.num % x.den /= 0 THEN "Float64"
     ELSE IF v >= MinInt64 /\ v <= MaxInt64 THEN "Int64"
     ELSE IF v >= 0 /\ v <= MaxUint64 THEN "Uint64"
     ELSE "Float64"

\* the text s is a decimal number: [+-]digits[.digits]
IsDecimal(s) ==
  LET body == IF Len(s) > 0 /\ (s[1] = "-" \/ s[1] = "+") THEN Tail(s) ELSE s
      ni   == DigitRun(body, 1)
  IN /\ ni > 0
     /\ \/ Len(body) = ni
        \/ /\ Len(body) > ni + 1 /\ body[ni + 1] = "."
           /\ DigitRun(body, ni + 2) = Len(body) - ni - 1

\* a wire number with a valid decimal text was received
NumberReceived ==
  /\ last.op = "Receive" /\ phase \in {"received", "decoded"}
  /\ av2.val[1].member = "N" /\ IsDecimal(av2.val[1].Value)
  /\ av1.val[1].N = Some(av2.val[1].Value)

\* C12: the node decoded from a wire number has kind Int64 when the text
\* denotes an integer of the signed range, else Uint64 when it denotes an
\* integer of the unsigned range, else Float64.
C12_NarrowestKind ==
  (Decoded /\ NumberReceived) =>
    /\ Succeeded(d1) /\ Get(d1.val).kind = NarrowestKind(av2.val[1].Value)
    /\ Succeeded(d2) /\ Get(d2.val).kind = NarrowestKind(av2.val[1].Value)

\* every slot of every list of the tree t holds a node, and every node is an
\* integer, a list or a map
RECURSIVE Complete(_)
Complete(t) ==
  CASE t.kind = "Int64" -> TRUE
    [] t.kind = "Slice" ->
         \A i \in 1..Len(t.value.v) :
           ~IsNil(t.value.v[i]) /\ Complete(Get(t.value.v[i]))
    [] t.kind = "Map" -> \A k \in DOMAIN t.value.v : Complete(t.value.v[k])
    [] OTHER -> FALSE

\* every list of the tree t is, at the same place of the V1 value a, a wire
\* list of as many elements, element i the rendering of slot i
RECURSIVE ListsRenderedV1(_, _)
ListsRenderedV1(t, a) ==
  CASE t.kind = "Slice" ->
         /\ V1Kinds(a) = {"L"}
         /\ Len(Get(a.L)) = Len(t.value.v)
         /\ \A i \in 1..Len(t.value.v) :
              /\ \E ord \in KeyOrders :
                   Ok(Get(a.L)[i]) = asV1AttributeValue(Get(t.value.v[i]), ord)
              /\ ListsRenderedV1(Get(t.value.v[i]), Get(a.L)[i])
    [] t.kind = "Map" ->
         /\ V1Kinds(a) = {"M"}
         /\ \A k \in DOMAIN t.value.v :
              k \in DOMAIN Get(a.M) /\ ListsRenderedV1(t.value.v[k], Get(a.M)[k])
    [] OTHER -> TRUE

RECURSIVE ListsRenderedV2(_, _)
ListsRenderedV2(t, b) ==
  CASE t.kind = "Slice" ->
         /\ b.member = "L" /\ ~IsNil(b.Value)
         /\ Len(Get(b.Value)) = Len(t.value.v)
         /\ \A i \in 1..Len(t.value.v) :
              /\ \E ord \in KeyOrders :
                   Ok(Get(b.Value)[i]) = asV2AttributeValue(Get(t.value.v[i]), ord)
              /\ ListsRenderedV2(Get(t.value.v[i]), Get(b.Value)[i])
    [] t.kind = "Map" ->
         /\ b.member = "M" /\ ~IsNil(b.Value)
         /\ \A k \in DOMAIN t.value.v :
              k \in DOMAIN Get(b.Value) /\ ListsRenderedV2(t.value.v[k], Get(b.Value)[k])
    [] OTHER -> TRUE

\* DecodeList on the node d visits the indices 0..n-1 in increasing order,
\* stops when told to, and hands out one node per index
VisitsInOrder(d, n) ==
  /\ ListLen(d) = Got(n, TRUE)
  /\ ~DecodeList(d, 0).panic
  /\ Len(DecodeList(d, 0).calls) = n
  /\ \A i \in 1..n : /\ DecodeList(d, 0).calls[i].i = i - 1
                     /\ ~IsNil(DecodeList(d, 0).calls[i].vd)
  /\ \A stop \in 1..n : DecodeList(d, stop).calls = SubSeq(DecodeList(d, 0).calls, 1, stop)

\* every wire list of the V1 value a is, at the same place of the decoded
\* tree d, a list node of as many children, child i the decoding of element i
RECURSIVE ListsDecodedV1(_, _)
ListsDecodedV1(a, d) ==
  CASE V1Kinds(a) = {"L"} ->
         /\ d.kind = "Slice"
         /\ VisitsInOrder(d, Len(Get(a.L)))
         /\ \A i \in 1..Len(Get(a.L)) :
              LET vd == DecodeList(d, 0).calls[i].vd
              IN /\ \E ord \in KeyOrders, arch \in Archs :
                      vd = newV1Decoder(Get(a.L)[i], ord, arch).val
                 /\ ListsDecodedV1(Get(a.L)[i], Get(vd))
    [] V1Kinds(a) = {"M"} ->
         /\ d.kind = "Map"
         /\ \A k \in DOMAIN Get(a.M) :
              k \in DOMAIN d.value.v /\ ListsDecodedV1(Get(a.M)[k], d.value.v[k])
    [] OTHER -> TRUE

RECURSIVE ListsDecodedV2(_, _)
ListsDecodedV2(b, d) ==
  CASE b.member = "L" ->
         /\ d.kind = "Slice"
         /\ VisitsInOrder(d, Len(Get(b.Value)))
         /\ \A i \in 1..Len(Get(b.Value)) :
              LET vd == DecodeList(d, 0).calls[i].vd
              IN /\ \E ord \in KeyOrders, arch \in Archs :
                      vd = newV2Decoder(Get(b.Value)[i], ord, arch).val
                 /\ ListsDecodedV2(Get(b.Value)[i], Get(vd))
    [] b.member = "M" ->
         /\ d.kind = "Map"
         /\ \A k \in DOMAIN Get(b.Value) :
              k \in DOMAIN d.value.v /\ ListsDecodedV2(Get(b.Value)[k], d.value.v[k])
    [] OTHER -> TRUE

RECURSIVE MapsRenderedV1(_, _)
MapsRenderedV1(t, a) ==
  CASE t.kind = "Map" ->
         /\ V1Kinds(a) = {"M"}
         /\ DOMAIN Get(a.M) = DOMAIN t.value.v
         /\ \A k \in DOMAIN t.value.v :
              /\ \E ord \in KeyOrders :
                   Ok(Get(a.M)[k]) = asV1AttributeValue(t.value.v[k], ord)
              /\ MapsRenderedV1(t.value.v[k], Get(a.M)[k])
    [] t.kind = "Slice" ->
         /\ V1Kinds(a) = {"L"}
         /\ Len(Get(a.L)) = Len(t.value.v)
         /\ \A i \in 1..Len(t.value.v) :
              MapsRenderedV1(Get(t.value.v[i]), Get(a.L)[i])
    [] OTHER -> TRUE

RECURSIVE MapsRenderedV2(_, _)
MapsRenderedV2(t, b) ==
  CASE t.kind = "Map" ->
         /\ b.member = "M" /\ ~IsNil(b.Value)
         /\ DOMAIN Get(b.Value) = DOMAIN t.value.v
         /\ \A k \in DOMAIN t.value.v :
              /\ \E ord \in KeyOrders :
                   Ok(Get(b.Value)[k]) = asV2AttributeValue(t.value.v[k], ord)
              /\ MapsRenderedV2(t.value.v[k], Get(b.Value)[k])
    [] t.kind = "Slice" ->
         /\ b.member = "L" /\ ~IsNil(b.Value)
         /\ Len(Get(b.Value)) = Len(t.value.v)
         /\ \A i \in 1..Len(t.value.v) :
              MapsRenderedV2(Get(t.value.v[i]), Get(b.Value)[i])
    [] OTHER -> TRUE

\* DecodeMap on the node d visits every key of K exactly once, whatever the
\* order of the range, and stops when told to
VisitsEveryKey(d, K) ==
  /\ MapLen(d) = Got(Cardinality(K), TRUE)
  /\ \A ord \in KeyOrders :
       LET calls == DecodeMap(d, ord, 0).calls
       IN /\ ~DecodeMap(d, ord, 0).panic
          /\ Len(calls) = Cardinality(K)
          /\ {calls[i].key : i \in 1..Len(calls)} = K
          /\ \A i \in 1..Len(calls) : calls[i].exactMatch /\ calls[i].vd = d.value.v[calls[i].key]
          /\ \A stop \in 1..Len(calls) :
               DecodeMap(d, ord, stop).calls = SubSeq(calls, 1, stop)

\* every wire map of the V1 value a is, at the same place of the decoded tree
\* d, a map node of the same keys, the child of a key the decoding of the
\* value of that key alone
RECURSIVE MapsDecodedV1(_, _)
MapsDecodedV1(a, d) ==
  CASE V1Kinds(a) = {"M"} ->
         /\ d.kind = "Map"
         /\ VisitsEveryKey(d, DOMAIN Get(a.M))
         /\ \A k \in DOMAIN Get(a.M) :
              /\ \E ord \in KeyOrders, arch \in Archs :
                   Some(d.value.v[k]) = newV1Decoder(Get(a.M)[k], ord, arch).val
              /\ MapsDecodedV1(Get(a.M)[k], d.value.v[k])
    [] V1Kinds(a) = {"L"} ->
         /\ d.kind = "Slice"
         /\ Len(d.value.v) = Len(Get(a.L))
         /\ \A i \in 1..Len(Get(a.L)) : MapsDecodedV1(Get(a.L)[i], Get(d.value.v[i]))
    [] OTHER -> TRUE

RECURSIVE MapsDecodedV2(_, _)
MapsDecodedV2(b, d) ==
  CASE b.member = "M" ->
         /\ d.kind = "Map"
         /\ VisitsEveryKey(d, DOMAIN Get(b.Value))
         /\ \A k \in DOMAIN Get(b.Value) :
              /\ \E ord \in KeyOrders, arch \in Archs :
                   Some(d.value.v[k]) = newV2Decoder(Get(b.Value)[k], ord, arch).val
              /\ MapsDecodedV2(Get(b.Value)[k], d.value.v[k])
    [] b.member = "L" ->
         /\ d.kind = "Slice"
         /\ Len(d.value.v) = Len(Get(b.Value))
         /\ \A i \in 1..Len(Get(b.Value)) :
              MapsDecodedV2(Get(b.Value)[i], Get(d.value.v[i]))
    [] OTHER -> TRUE

Denotes(s, q) == IsDecimal(s) /\ ~ParseFloat(s).err /\ ParseFloat(s).f = q

\* the V1 value a / the V2 value b is a wire list of two wire numbers that
\* denote re and im, in this order
IsPairV1(a, re, im) ==
  /\ V1Kinds(a) = {"L"} /\ Len(Get(a.L)) = 2
  /\ V1Kinds(Get(a.L)[1]) = {"N"} /\ Denotes(Get(Get(a.L)[1].N), re)
  /\ V1Kinds(Get(a.L)[2]) = {"N"} /\ Denotes(Get(Get(a.L)[2].N), im)
IsPairV2(b, re, im) ==
  /\ b.member = "L" /\ ~IsNil(b.Value) /\ Len(Get(b.Value)) = 2
  /\ Get(b.Value)[1].member = "N" /\ Denotes(Get(b.Value)[1].Value, re)
  /\ Get(b.Value)[2].member = "N" /\ Denotes(Get(b.Value)[2].Value, im)

\* a wire list was received
ListReceived ==
  /\ last.op = "Receive" /\ phase \in {"received", "decoded"}
  /\ av2.val[1].member = "L"

\* the wire list received holds two wire numbers with a valid text
TwoNumbers ==
  /\ Len(Get(av2.val[1].Value)) = 2
  /\ \A i \in 1..2 : /\ Get(av2.val[1].Value)[i].member = "N"
                     /\ IsDecimal(Get(av2.val[1].Value)[i].Value)

\* C15: EncodeComplex(c) renders in both variants as a wire list of two wire
\* numbers, real part first; AsComplex on the tree decoded from it returns
\* (c, true); and AsComplex on a decoded wire list returns ok = true only
\* for a list of two numbers.
C15_ComplexRoundTrip ==
  /\ (Rendered /\ RootNote("EncodeComplex")) =>
       /\ Succeeded(av1) /\ IsPairV1(Get(av1.val), last.x.re, last.x.im)
       /\ Succeeded(av2) /\ IsPairV2(Get(av2.val), last.x.re, last.x.im)
  /\ (Rendered /\ Decoded /\ RootNote("EncodeComplex")) =>
       /\ Succeeded(d1) /\ AsComplex(Get(d1.val)) = Got(last.x, TRUE)
       /\ Succeeded(d2) /\ AsComplex(Get(d2.val)) = Got(last.x, TRUE)
  /\ (Decoded /\ ListReceived /\ Succeeded(d1)) =>
       (~AsComplex(Get(d1.val)).panic /\ (AsComplex(Get(d1.val)).ok <=> TwoNumbers))
  /\ (Decoded /\ ListReceived /\ Succeeded(d2)) =>
       (~AsComplex(Get(d2.val)).panic /\ (AsComplex(Get(d2.val)).ok <=> TwoNumbers))

\* a complex value was notified, rendered as the list of its two parts and
\* decoded
C15_Witness ==
  /\ Rendered /\ Decoded /\ RootNote("EncodeComplex")
  /\ last.x = Complex(48, 14)
  /\ Get(av1.val) = SetL(Some(<<SetN(<<"1", "2">>), SetN(<<"3", ".", "5">>)>>))
  /\ Succeeded(d1) /\ Succeeded(d2)
  /\ AsComplex(Get(d2.val)).ok

\* the value x is a plain number (no node) that equals the float64 q
PlainNumber(x, q) ==
  \/ x.t \in {"int64", "uint64"} /\ x.v * FUnit = q
  \/ x.t = "float64" /\ x.v = q

\* AsInterface on the node d returns, without error, the list of the plain
\* numbers re and im
GenericPair(d, re, im) ==
  LET r == AsInterface(d)
  IN /\ IsNil(r.err)
     /\ r.val.t = "[]interface {}"
     /\ Len(r.val.v) = 2
     /\ PlainNumber(r.val.v[1], re)
     /\ PlainNumber(r.val.v[2], im)

\* C16: AsInterface on the tree decoded from the wire encoding of a complex
\* value returns, without error, the list of its two parts as plain numbers,
\* in both wire variants.
C16_ComplexAsGenericList ==
  (Rendered /\ Decoded /\ RootNote("EncodeComplex")) =>
    /\ Succeeded(d1) /\ GenericPair(Get(d1.val), last.x.re, last.x.im)
    /\ Succeeded(d2) /\ GenericPair(Get(d2.val), last.x.re, last.x.im)

\* encodeDocKeyFields has returned
Projected == phase = "projected"

\* reading or encoding the field f of the document fails
FieldFails(f) ==
  \/ f \notin DOMAIN kf.doc
  \/ kf.doc[f].t \notin {"string", "int64"}

\* the error of reading or encoding the field f
FieldError(f) ==
  IF f \notin DOMAIN kf.doc THEN GetField(kf.doc, f).err
  ELSE encodeValueFunc(kf.doc[f]).err

\* the encoding of the field f alone
FieldNode(f) ==
  IF kf.doc[f].t = "string" THEN [kind |-> "String", value |-> kf.doc[f]]
  ELSE [kind |-> "Int64", value |-> kf.doc[f]]

\* C17: when every field it reads exists and encodes, encodeDocKeyFields
\* returns no error and a map whose keys are pkey alone when skey is empty,
\* pkey and skey when skey is another field, each with the encoding of that
\* field of the document alone.
C17_KeyProjection ==
  (Projected /\ ~FieldFails(kf.pkey) /\ (kf.skey /= "" => ~FieldFails(kf.skey))) =>
    /\ IsNil(kf.res.err) /\ ~IsNil(kf.res.m)
    /\ kf.skey = "" => DOMAIN Get(kf.res.m) = {kf.pkey}
    /\ (kf.skey /= "" /\ kf.skey /= kf.pkey) => DOMAIN Get(kf.res.m) = {kf.pkey, kf.skey}
    /\ \A k \in DOMAIN Get(kf.res.m) : Get(kf.res.m)[k] = FieldNode(k)

\* the key fields id and ts of a document with a third field were projected
C17_Witness ==
  /\ Projected
  /\ kf.pkey = "id" /\ kf.skey = "ts" /\ DOMAIN kf.doc = {"id", "ts", "x"}
  /\ IsNil(kf.res.err)
  /\ DOMAIN Get(kf.res.m) = {"id", "ts"}
  /\ Get(kf.res.m)["id"] = EncodeString(<<"a", "b", "c">>)
  /\ Get(kf.res.m)["ts"] = EncodeInt(7)

\* C18: encodeDocKeyFields reads pkey first; when pkey fails it returns that
\* error and no map and reads nothing else; it reads skey only when skey is
\* not empty and pkey succeeded; when skey fails it returns the error and no
\* map.
C18_KeyProjectionErrors ==
  Projected =>
    /\ Len(kf.res.reads) >= 1 /\ kf.res.reads[1] = kf.pkey
    /\ FieldFails(kf.pkey) =>
         /\ kf.res.err = FieldError(kf.pkey) /\ ~IsNil(kf.res.err)
         /\ IsNil(kf.res.m)
         /\ kf.res.reads = <<kf.pkey>>
    /\ kf.skey = "" => kf.res.reads = <<kf.pkey>>
    /\ (~FieldFails(kf.pkey) /\ kf.skey /= "") => kf.res.reads = <<kf.pkey, kf.skey>>
    /\ (~FieldFails(kf.pkey) /\ kf.skey /= "" /\ FieldFails(kf.skey)) =>
         /\ kf.res.err = FieldError(kf.skey) /\ ~IsNil(kf.res.err)
         /\ IsNil(kf.res.m)

\* the partition key was read and encoded, the sort key is missing from the
\* document, and the call returned its error and no map
C18_Witness ==
  /\ Projected
  /\ kf.pkey = "id" /\ kf.skey = "ts" /\ DOMAIN kf.doc = {"id", "x"}
  /\ kf.doc["id"].t = "string"
  /\ kf.res.reads = <<"id", "ts">>
  /\ ~IsNil(kf.res.err) /\ IsNil(kf.res.m)

\* the V1 value a / the V2 value b holds, at the root or nested in lists and
\* maps, a wire number whose text is no decimal number
RECURSIVE BadNumberV1(_)
BadNumberV1(a) ==
  CASE V1Kinds(a) = {"N"} -> ~IsDecimal(Get(a.N))
    [] V1Kinds(a) = {"L"} -> \E i \in 1..Len(Get(a.L)) : BadNumberV1(Get(a.L)[i])
    [] V1Kinds(a) = {"M"} -> \E k \in DOMAIN Get(a.M) : BadNumberV1(Get(a.M)[k])
    [] OTHER -> FALSE

RECURSIVE BadNumberV2(_)
BadNumberV2(b) ==
  CASE b.member = "N" -> ~IsDecimal(b.Value)
    [] b.member = "L" -> \E i \in 1..Len(Get(b.Value)) : BadNumberV2(Get(b.Value)[i])
    [] b.member = "M" -> \E k \in DOMAIN Get(b.Value) : BadNumberV2(Get(b.Value)[k])
    [] OTHER -> FALSE

\* the decoding r returned an error and no node
DecodeError(r) == ~r.panic /\ ~IsNil(r.err) /\ IsNil(r.val)

\* C19: decoding a wire value that holds, at the root or nested in lists and
\* maps, a wire number whose text is no decimal number returns an error and
\* no node, in both wire variants.
C19_MalformedNumberFails ==
  (Decoded /\ last.op = "Receive") =>
    /\ BadNumberV1(Get(av1.val)) => DecodeError(d1)
    /\ BadNumberV2(Get(av2.val)) => DecodeError(d2)

\* the kinds asV1AttributeValue and asV2AttributeValue have a case for
RuledKinds == {"Interface", "Bool", "Int64", "Uint64", "Array", "Float64",
               "String", "Complex128", "Slice", "Map"}

\* the tree t has no empty list slot, and a node of a kind without rendering
\* rule at its root or nested
RECURSIVE Unruled(_)
Unruled(t) ==
  CASE t.kind = "Slice" ->
         /\ \A i \in 1..Len(t.value.v) : ~IsNil(t.value.v[i])
         /\ \E i \in 1..Len(t.value.v) : Unruled(Get(t.value.v[i]))
    [] t.kind = "Map" -> \E k \in DOMAIN t.value.v : Unruled(t.value.v[k])
    [] OTHER -> t.kind \notin RuledKinds

\* the rendering r is an invalid-argument error, neither a panic nor a value
InvalidArgument(r) ==
  ~r.panic /\ IsNil(r.val) /\ ~IsNil(r.err) /\ Get(r.err).code = "InvalidArgument"

\* C20: rendering a tree that holds, at the root or nested, a node whose
\* kind has no rendering rule returns an invalid-argument error from both
\* renderers: no panic and no wire value.
C20_UnknownKindIsError ==
  (Rendered /\ Unruled(Resolve(e))) => InvalidArgument(av1) /\ InvalidArgument(av2)

\* a wire value was received
Received == last.op = "Receive" /\ phase \in {"received", "decoded"}

\* the conversion result r, an (interface{}, error), holds no value beside
\* its error
NoPartialValue(r) == ~IsNil(r.err) => r.val.t = "nil"

\* C21: a rendering that returns an error returns no wire value, a decoding
\* that returns an error returns no node, and toGoValue / toGoValueV2 return
\* a nil value with their error, never a partly filled list or map.
C21_NoPartialStructure ==
  /\ Rendered => /\ (~IsNil(av1.err) => IsNil(av1.val))
                 /\ (~IsNil(av2.err) => IsNil(av2.val))
  /\ Decoded => /\ (~IsNil(d1.err) => IsNil(d1.val))
                /\ (~IsNil(d2.err) => IsNil(d2.val))
  /\ Received =>
       \A ord \in KeyOrders, arch \in Archs :
         /\ NoPartialValue(toGoValue(Get(av1.val), ord, arch))
         /\ NoPartialValue(toGoValueV2(Get(av2.val), ord, arch))

\* decoder.asV1Special(v) / decoder.asV2Special(v) of the decoder that works
\* on the wire value itself, for a destination of type t
asV1Special(av, t) ==
  IF ~IsNil(av.SS) \/ ~IsNil(av.NS) \/ ~IsNil(av.BS)
  THEN Special(TRUE, NilAny, Some("unsupported type"))
  ELSE IF t = typeOfGoTime
       THEN IF IsNil(av.S)
            THEN Special(FALSE, NilAny, Some("expected string field for time.Time"))
            ELSE LET p == TimeParse(Get(av.S))
                 IN Special(TRUE, AnyOf("time.Time", p.t),
                            IF p.err THEN Some("parsing time") ELSE Nil)
       ELSE Special(FALSE, NilAny, Nil)

asV2Special(av, t) ==
  IF av.member \in {"SS", "NS", "BS"}
  THEN Special(TRUE, NilAny, Some("unsupported type"))
  ELSE IF t = typeOfGoTime /\ av.member = "NULL"
       THEN Special(FALSE, NilAny, Some("expected string field for time.Time"))
       ELSE IF t = typeOfGoTime /\ av.member = "S"
            THEN LET p == TimeParse(av.Value)
                 IN Special(TRUE, AnyOf("time.Time", p.t),
                            IF p.err THEN Some("parsing time") ELSE Nil)
            ELSE Special(FALSE, NilAny, Nil)

\* the kinds of a node, and of a wire value, that is not a string
NotStringKinds == {"Interface", "Bool", "Int64", "Uint64", "Float64", "Array",
                   "Slice", "Map"}
NotStringWire == {"NULL", "BOOL", "N", "B", "L", "M"}

\* AsSpecial with a timestamp destination returned an error, without panic
Mismatch(r) == ~r.panic /\ ~IsNil(r.err)

\* C22: AsSpecial with a timestamp destination on a decoded node that is not
\* a string returns a non-nil error, for the node of either wire variant;
\* so do asV1Special and asV2Special on the wire value it was decoded from.
C22_SpecialMismatchIsError ==
  /\ (Decoded /\ Succeeded(d1) /\ Get(d1.val).kind \in NotStringKinds) =>
       Mismatch(AsSpecial(Get(d1.val), typeOfGoTime))
  /\ (Decoded /\ Succeeded(d2) /\ Get(d2.val).kind \in NotStringKinds) =>
       Mismatch(AsSpecial(Get(d2.val), typeOfGoTime))
  /\ (Received /\ V1Kinds(Get(av1.val)) \subseteq NotStringWire
      /\ V1Kinds(Get(av1.val)) /= {}) =>
       Mismatch(asV1Special(Get(av1.val), typeOfGoTime))
  /\ (Received /\ Get(av2.val).member \in NotStringWire) =>
       Mismatch(asV2Special(Get(av2.val), typeOfGoTime))

\* the node d reads as bytes and not as a list
ReadsAsBytes(d) ==
  /\ d.kind = "Array"
  /\ ~AsBytes(d).panic /\ AsBytes(d).ok
  /\ ~ListLen(d).panic /\ ~ListLen(d).ok

\* C23: EncodeBytes(x), also for an empty or absent x, leaves a node of kind
\* Bytes that renders in both variants as the wire binary kind and no other;
\* the node decoded from it reads as bytes and not as a list.
C23_BytesKeepTheirKind ==
  /\ (Rendered /\ RootNote("EncodeBytes")) =>
       /\ e.kind = "Array"
       /\ Succeeded(av1) /\ V1Kinds(Get(av1.val)) = {"B"}
       /\ Succeeded(av2) /\ Get(av2.val).member = "B"
  /\ (Rendered /\ Decoded /\ RootNote("EncodeBytes")) =>
       /\ Succeeded(d1) /\ ReadsAsBytes(Get(d1.val))
       /\ Succeeded(d2) /\ ReadsAsBytes(Get(d2.val))

\* the tree t holds a list with a slot that was never committed
RECURSIVE HasEmptySlot(_)
HasEmptySlot(t) ==
  CASE t.kind = "Slice" ->
         \E i \in 1..Len(t.value.v) :
           IsNil(t.value.v[i]) \/ HasEmptySlot(Get(t.value.v[i]))
    [] t.kind = "Map" -> \E k \in DOMAIN t.value.v : HasEmptySlot(t.value.v[k])
    [] OTHER -> FALSE

\* the last call was EncodeMap(n) with n > 0 on the root observer: the root
\* is a map that holds none of the n keys announced
MapJustBegun == RootNote("EncodeMap") /\ last.x > 0 /\ e.kind = "Map"

\* C24: rendering a tree with a list that has a slot never committed, or
\* with a map that holds fewer keys than EncodeMap announced, does not
\* return a wire value without error, in either variant.
C24_PartialNeverRenders ==
  /\ (Rendered /\ HasEmptySlot(Resolve(e))) => ~Succeeded(av1) /\ ~Succeeded(av2)
  /\ (Rendered /\ MapJustBegun) => ~Succeeded(av1) /\ ~Succeeded(av2)

\* the nodes a and b have the same kind and the same payload
SameNode(a, b) == a.kind = b.kind /\ a.value.t = b.value.t /\ a.value.v = b.value.v

\* C25: EncodeSpecial(v) returns (true, nil) exactly when v is a time.Time,
\* and then leaves the observer with a String node of the formatted time;
\* for every other type it returns (false, nil) and leaves the observer's
\* node as it was.
C25_SpecialOnlyTime ==
  [][\A o \in 0..(MaxSteps + MaxNotes) :
       (last'.op = "EncodeSpecial" /\ last'.o = o /\ steps' = steps + 1) =>
         LET v == last'.x
             r == EncodeSpecial(Node(o), v)
         IN /\ IsNil(r.err)
            /\ r.ok <=> (v.t = "time.Time")
            /\ r.ok => SameNode(Node(o)', encodeValue(AnyOf("string", TimeFormat(v.v)),
                                                      "String"))
            /\ ~r.ok => SameNode(Node(o)', Node(o))]_vars

\* EncodeSpecial accepted a time on an observer that held an integer, and
\* declined another type on an observer that held one
C25_Witness ==
  /\ phase = "encode" /\ last.op = "EncodeSpecial" /\ prev.op = "EncodeInt"
  /\ last.o = prev.o
  /\ \/ last.x.t = "time.Time" /\ Node(last.o).kind = "String"
     \/ last.x.t = "url.URL" /\ Node(last.o).kind = "Int64"

\* C26: the calls of several goroutines, each on a tree of its own, give in
\* every interleaving the results the same calls give alone (the renderers
\* of the goroutine's codec, the decoders of its wire values), and the
\* shared null sentinel always holds what it was initialised with.
Alone(r) ==
  /\ (r.op = "encode" /\ r.pc \in {"rendered", "decoded"}) =>
       /\ r.av1 = asV1AttributeValue(r.tree, <<"a", "b">>)
       /\ r.av2 = asV2AttributeValue(r.tree, <<"a", "b">>)
  /\ r.pc = "decoded" =>
       \E arch \in Archs :
         /\ r.d1 = newV1Decoder(Get(r.av1.val), <<"a", "b">>, arch)
         /\ r.d2 = newV2Decoder(Get(r.av2.val), <<"a", "b">>, arch)
C26_CallsIndependent ==
  /\ sentinel = nullValue
  /\ \A t \in Goroutines : Alone(routines[t])

\* one goroutine has rendered a null while the other one has decoded
C26_Witness ==
  /\ routines[1].pc = "rendered" /\ routines[1].tree = EncodeNil
  /\ routines[1].av1 = Ok(nullValue)
  /\ routines[2].op = "decode" /\ routines[2].pc = "decoded"
  /\ Succeeded(routines[2].d1)

\* the accessors of the number node d agree with the number num / den:
\* AsInt succeeds only for an integer of the int64 range, AsUint only for an
\* integer of the uint64 range, each then with that integer; AsFloat
\* succeeds with the number; for an integer of 0 .. MaxInt64 all three
\* succeed
IntReadsExact(d, x) ==
  AsInt(d).ok =>
    /\ x.num % x.den = 0
    /\ x.num \div x.den \in MinInt64..MaxInt64
    /\ AsInt(d).v = x.num \div x.den
UintReadsExact(d, x) ==
  AsUint(d).ok =>
    /\ x.num % x.den = 0
    /\ x.num \div x.den \in 0..MaxUint64
    /\ AsUint(d).v = x.num \div x.den
FloatReadsExact(d, x) ==
  AsFloat(d).ok /\ AsFloat(d).v * x.den = x.num * FUnit
AllReadSmall(d, x) ==
  (x.num % x.den = 0 /\ x.num \div x.den \in 0..MaxInt64) =>
    /\ AsInt(d).ok /\ AsInt(d).v = x.num \div x.den
    /\ AsUint(d).ok /\ AsUint(d).v = x.num \div x.den
    /\ AsFloat(d).ok /\ AsFloat(d).v = (x.num \div x.den) * FUnit
ReadsExact(d, x) ==
  /\ IntReadsExact(d, x)
  /\ UintReadsExact(d, x)
  /\ FloatReadsExact(d, x)
  /\ AllReadSmall(d, x)

\* C27: on the node decoded from a wire number with a valid decimal text,
\* in both wire variants, no numeric accessor reports success with a value
\* other than the number the text denotes: AsInt succeeds only for an int64
\* integer, AsUint only for a uint64 integer (never for a negative number),
\* AsFloat always, and for an integer of 0 .. MaxInt64 all three succeed with
\* the same value.
C27_AccessorsExact ==
  (Decoded /\ NumberReceived) =>
    /\ Succeeded(d1) => ReadsExact(Get(d1.val), TextNumber(av2.val[1].Value))
    /\ Succeeded(d2) => ReadsExact(Get(d2.val), TextNumber(av2.val[1].Value))

\* the dynamic types of the payload that each kind of a node announces (the
\* set kinds are decoded as kind Invalid, a timestamp text as kind Chan)
PayloadTypes ==
  [Invalid |-> {"nil", "[]*string", "[]string", "[][]byte"},
   Interface |-> {"nil"}, Bool |-> {"bool"}, Int64 |-> {"int64"},
   Uint64 |-> {"uint64"}, Float64 |-> {"float64"}, Complex128 |-> {"complex128"},
   Array |-> {"[]byte"}, String |-> {"string"}, Chan |-> {"time.Time"},
   Slice |-> {"[]*codec"}, Map |-> {"map[string]*codec"}]

\* every node of the tree t holds a payload of the type its kind announces,
\* and no read accessor panics on it (AsComplex reads the slots of a list:
\* it is left out for a list with a slot not committed)
RECURSIVE WellShaped(_)
WellShaped(t) ==
  /\ t.kind \in DOMAIN PayloadTypes /\ t.value.t \in PayloadTypes[t.kind]
  /\ ~AsBool(t).panic /\ ~AsString(t).panic /\ ~AsInt(t).panic /\ ~AsUint(t).panic
  /\ ~AsFloat(t).panic /\ ~AsBytes(t).panic /\ ~ListLen(t).panic /\ ~MapLen(t).panic
  /\ ~DecodeList(t, 0).panic /\ ~DecodeMap(t, <<"a", "b">>, 0).panic
  /\ ~AsSpecial(t, typeOfGoTime).panic
  /\ CASE t.kind = "Slice" ->
            /\ \A i \in 1..Len(t.value.v) :
                 IsNil(t.value.v[i]) \/ WellShaped(Get(t.value.v[i]))
            /\ (\A i \in 1..Len(t.value.v) : ~IsNil(t.value.v[i])) => ~AsComplex(t).panic
       [] t.kind = "Map" -> \A k \in DOMAIN t.value.v : WellShaped(t.value.v[k])
       [] OTHER -> ~AsComplex(t).panic

\* the tree t holds a node never notified: the zero codec
RECURSIVE HasZeroNode(_)
HasZeroNode(t) ==
  CASE t.kind = "Invalid" -> t.value.t = "nil"
    [] t.kind = "Slice" ->
         \E i \in 1..Len(t.value.v) : ~IsNil(t.value.v[i]) /\ HasZeroNode(Get(t.value.v[i]))
    [] t.kind = "Map" -> \E k \in DOMAIN t.value.v : HasZeroNode(t.value.v[k])
    [] OTHER -> FALSE

\* C28: after any notifications (the last one on an observer wins) and after
\* any decode, every node holds a payload of the type its kind announces:
\* no read accessor panics on a node, and a renderer panics only on a slot
\* or a node that was never notified, never on a payload of the wrong type.
C28_PayloadMatchesKind ==
  /\ \A o \in Observers : WellShaped(Resolve(Node(o)))
  /\ (Rendered /\ (av1.panic \/ av2.panic)) =>
       (HasEmptySlot(Resolve(e)) \/ HasZeroNode(Resolve(e)))
  /\ Decoded =>
       /\ Succeeded(d1) => WellShaped(Get(d1.val))
       /\ Succeeded(d2) => WellShaped(Get(d2.val))

\* a map notified to the root observer was overwritten by an unsigned
\* integer, and the tree was rendered and decoded
C28_Witness ==
  /\ Rendered /\ Decoded
  /\ prev.op = "EncodeMap" /\ prev.o = 0 /\ RootNote("EncodeUint")
  /\ e.kind = "Uint64"
  /\ Succeeded(d1) /\ Get(d1.val).kind \in {"Int64", "Uint64"}
  /\ Succeeded(d2)

\* C29: asV1AttributeMap and asV2AttributeMap on a tree whose root is not of
\* kind Map (a null root and a root never notified included) return an
\* invalid-argument error, no map and no panic; on a root of kind Map they
\* return the entries of the rendered wire map, or the failure of the
\* rendering.
C29_MapOfNonMapIsError ==
  Rendered =>
    \A ord \in KeyOrders :
      LET t  == Resolve(e)
          m1 == asV1AttributeMap(t, ord)
          m2 == asV2AttributeMap(t, ord)
          r1 == asV1AttributeValue(t, ord)
          r2 == asV2AttributeValue(t, ord)
      IN /\ t.kind /= "Map" => InvalidArgument(m1) /\ InvalidArgument(m2)
         /\ t.kind = "Map" =>
              /\ IF Succeeded(r1) THEN m1 = Ok(Get(Get(r1.val).M)) ELSE m1 = r1
              /\ IF Succeeded(r2) THEN m2 = Ok(Get(Get(r2.val).Value)) ELSE m2 = r2

\* the members of a V2 wire value that newV2Decoder has a case for
V2Members == {"B", "BOOL", "BS", "L", "M", "N", "NS", "NULL", "S", "SS"}

\* the V1 value a / the V2 value b holds, at its root or nested in lists and
\* maps, a value with no recognized kind
RECURSIVE NoKindV1(_)
NoKindV1(a) ==
  CASE V1Kinds(a) = {} -> TRUE
    [] V1Kinds(a) = {"L"} -> \E i \in 1..Len(Get(a.L)) : NoKindV1(Get(a.L)[i])
    [] V1Kinds(a) = {"M"} -> \E k \in DOMAIN Get(a.M) : NoKindV1(Get(a.M)[k])
    [] OTHER -> FALSE

RECURSIVE NoKindV2(_)
NoKindV2(b) ==
  CASE b.member \notin V2Members -> TRUE
    [] b.member = "L" -> \E i \in 1..Len(Get(b.Value)) : NoKindV2(Get(b.Value)[i])
    [] b.member = "M" -> \E k \in DOMAIN Get(b.Value) : NoKindV2(Get(b.Value)[k])
    [] OTHER -> FALSE

\* the decoding r returned a not-supported error and no node
NotSupported(r) == DecodeError(r) /\ Get(r.err).code = "NotSupported"

\* C30: decoding a wire value that holds, at its root or nested in a list or
\* a map, a value with no recognized kind (no V1 field set; a nil V2 value or
\* a V2 member of unknown type) returns a not-supported error and no node, in
\* both wire variants.
C30_NoKindNotSupported ==
  Decoded =>
    /\ NoKindV1(Get(av1.val)) => NotSupported(d1)
    /\ NoKindV2(Get(av2.val)) => NotSupported(d2)

\* a map whose one value has no kind was decoded, in both variants
C30_Witness ==
  /\ Decoded /\ Received
  /\ V1Kinds(Get(av1.val)) = {"M"} /\ NoKindV1(Get(av1.val))
  /\ Get(av2.val).member = "M" /\ Get(Get(av2.val).Value)["a"].member = "UnknownUnionMember"
  /\ NotSupported(d1) /\ NotSupported(d2)

====
